---- MODULE Spec2Model ----
(***************************************************************************)
(* A state-machine model of the scattered-data fitting entry point of     *)
(* rspl/scat.c: fit_rspl_imp() followed by add_rspl_imp(), the per-level   *)
(* helpers new_mgtmp(), setup_solve(), init_soln(), free_mgtmp(),          *)
(* comp_ccv(), filter_ccv(), init_ccv(), comp_extrafit_corr() and the      *)
(* iteration structure of solve_gres() and cj_line().                      *)
(*                                                                         *)
(* Conventions of the model                                                *)
(*  - Axes e and output channels f are numbered from 1 (C: from 0); rungs  *)
(*    nn of the resolution ladder are numbered from 0 as in the C code, so *)
(*    ires[nn+1] is the C s->ires[nn].                                     *)
(*  - A NULL pointer to a vector or table is the empty sequence << >>, a   *)
(*    NULL mgtmp pointer is level id 0.                                    *)
(*  - Positions (double in C) are integers; only their order is used.      *)
(*  - ipos[] entries are integers in units of 0.5e-12, so the 1e-12 test   *)
(*    of line 481 is a test against IposMinGap = 2 units.                  *)
(*  - Residuals are integers in units of 1e-9, so TOL = 1e-6 is 1000.      *)
(*  - The floating point values of A, b and x are not carried.  A level    *)
(*    records where its x came from and the set of output channels whose   *)
(*    data (values, weights, value range, average deviation) were read to  *)
(*    produce it ("deps").  The residual that soln_err()/cj_line() would   *)
(*    compute is drawn from ErrVals when the input says conv = "any", and  *)
(*    is 0 when conv = "exact" (a system the seed already solves).         *)
(***************************************************************************)
EXTENDS Integers, Sequences, FiniteSets, TLC

VARIABLES
    in,        \* the arguments of the fit call (never changed)
    pc,        \* position in fit_rspl_imp / add_rspl_imp
    errmsg,    \* message of the error() call that ended the process, or ""
    ret,       \* value returned by the fit, -1 while running
    g,         \* s->g : res, bres, brix, l, h, ipos, alloc (grid allocated)
    d_no,      \* s->d.no
    niters,    \* s->niters (0 before the ladder is computed)
    ires,      \* s->ires[][] : ires[nn+1][e]
    mgtmps,    \* s->mgtmps[f][nn] : mgtmps[f][nn+1] is a level id, 0 = NULL
    levels,    \* every mgtmp ever created by new_mgtmp(), by id
    f,         \* add_rspl_imp: output channel being fitted
    donezf,    \* add_rspl_imp: extra fit passes done
    tpsm2,     \* s->tpsm2 : two pass smoothing sub-pass
    nn,        \* add_rspl_imp: ladder rung index
    m,         \* add_rspl_imp: local mgtmp pointer m (level id, 0 = NULL)
    ccv,       \* s->g.ccv : curvature compensation buffer
    cv,        \* per channel: state of the corrected targets s->d.a[].cv[f]
    grid,      \* per channel: what has been written to the grid values gp[f]
    sv,        \* locals of solve_gres()/cj_line() while a level is solved
    hist,      \* history: counts of calls the claims talk about
    ip,        \* an icompaths object (icoms.c) and the history of its calls
    cs,        \* a ccss object (ccss.c), the file it writes and reads
    calc,      \* a call of one of the numerical routines: arguments and result
    io         \* a call of icoms_write_read: the port, the position, the calls made

(* the variables of the fit, and those of the other components *)
fitvars == <<in, pc, errmsg, ret, g, d_no, niters, ires, mgtmps, levels, f, donezf,
             tpsm2, nn, m, ccv, cv, grid, sv, hist>>
nonfit == <<ip, cs, calc, io>>
vars == <<in, pc, errmsg, ret, g, d_no, niters, ires, mgtmps, levels, f, donezf,
          tpsm2, nn, m, ccv, cv, grid, sv, hist, ip, cs, calc, io>>

-----------------------------------------------------------------------------
(* Bounds of the model *)

MaxDi == 2         \* axes of the input space, 1..MaxDi
MaxFdi == 2        \* output channels, 1..MaxFdi
MaxDno == 2        \* data points, 0..MaxDno
MaxRes == 40       \* largest requested axis resolution of the ladder inputs
MaxPos == 2        \* data positions and supplied bounds range over -1..MaxPos

(* Program constants *)

SRES == 4          \* sres = 4 : starting resolution of the ladder
GRATIO == 2        \* #define GRATIO 2.0
TOL == 1000        \* #define TOL 1e-6, in units of 1e-9
TOL_IMP == 998     \* #define TOL_IMP 0.998, in thousandths
JITTERS == 0       \* #define JITTERS 0
MAXNI == 16        \* #define MAXNI 16
MAXOUTER == 500    \* for (i = 0; i < 500; i++) in solve_gres
CGFACTOR == 10     \* max_it = 10 * gno in the direct cj_line call
DIRECTRES == 4     \* if (m->g.bres <= 4) : direct conjugate gradient
IposMinGap == 2    \* 1e-12 in units of 0.5e-12
ZF_ON == 2         \* s->zf = (flags & RSPL_EXTRAFIT2) ? 2 : 0

-----------------------------------------------------------------------------
(* Small helpers *)

Range(q) == {q[i] : i \in 1..Len(q)}

Abs(x) == IF x < 0 THEN -x ELSE x

RECURSIVE Prod(_)
Prod(q) == IF q = << >> THEN 1 ELSE Head(q) * Prod(Tail(q))

MaxOf(S) == CHOOSE x \in S : \A y \in S : y <= x

(* index of the first largest element: the loop of lines 362-370 keeps the *)
(* first axis that reaches the biggest resolution (strict >).              *)
FirstMaxIx(q) == CHOOSE e \in 1..Len(q) :
                    /\ q[e] = MaxOf(Range(q))
                    /\ \A k \in 1..(e-1) : q[k] < q[e]

-----------------------------------------------------------------------------
(* The arguments of a fit call.                                            *)
(*   gres   requested resolution per axis                                  *)
(*   tpsm   1 if RSPL_2PASSSMTH is in flags, zf = 2 if RSPL_EXTRAFIT2 is   *)
(*   smooth sign of the smoothing factor (-1 raw mode, 0, 1)               *)
(*   pts    positions of the dno data points, pts[n][e]                    *)
(*   glow, ghigh  supplied grid range, << >> = NULL                        *)
(*   ipos   << >> = NULL, else per axis a table of gres[e] entries or << >>*)
(*   conv   how the residual of the levels' systems behaves (see above)    *)

Arg(di, fdi, gres, tpsm, zf, smooth, pts, glow, ghigh, ipos, conv) ==
    [di |-> di, fdi |-> fdi, gres |-> gres, tpsm |-> tpsm, zf |-> zf,
     smooth |-> smooth, dno |-> Len(pts), pts |-> pts, glow |-> glow,
     ghigh |-> ghigh, ipos |-> ipos, conv |-> conv]

Uniform(di, v) == [e \in 1..di |-> v]

(* Resolutions used where the orchestration is explored: 2 and 5 give a    *)
(* two rung ladder, 12 a three rung ladder (4, 7, 12) solved by relaxation *)
OrchRes == {2, 5, 12}
OnePoint(di) == << Uniform(di, 0) >>

(* Orchestration: every mix of channels, two pass smoothing and extra fit *)
MainArgs ==
    UNION { { Arg(di, fdi, gres, tpsm, zf, smooth, pts, << >>, << >>, << >>, "exact") :
                gres \in [1..di -> OrchRes], fdi \in 1..MaxFdi,
                tpsm \in {0, 1}, zf \in {0, ZF_ON}, smooth \in {0, 1},
                pts \in {<< >>, OnePoint(di)} } : di \in 1..MaxDi }

(* Ladder: every requested resolution on the first two axes, the extremes  *)
(* on any further axis; no data points, so the fit returns after the       *)
(* ladder has been computed.                                               *)
MaxLadderDi == 4
LadderRes(e) == IF e <= 2 THEN 1..MaxRes ELSE {2, MaxRes}
LadderArgs ==
    UNION { { Arg(di, 1, gres, 0, 0, 1, << >>, << >>, << >>, << >>, "exact") :
                gres \in {q \in [1..di -> 1..MaxRes] :
                             \A e \in 1..di : q[e] \in LadderRes(e)} } :
            di \in 1..MaxLadderDi }

(* Range: data positions and supplied bounds over -1..MaxPos.  A point     *)
(* with parameter v lies at v on odd axes and at MaxPos-1-v on even axes.  *)
PosVals == (-1)..MaxPos
PointAt(di, v) == [e \in 1..di |-> IF e % 2 = 1 THEN v ELSE MaxPos - 1 - v]
PointSeqs(di) == UNION { [1..k -> {PointAt(di, v) : v \in PosVals}] : k \in 0..MaxDno }
RangeOpts(di) == {<< >>} \cup {Uniform(di, v) : v \in PosVals}
RangeArgs ==
    UNION { { Arg(di, 1, Uniform(di, 2), 0, 0, 1, pts, glow, ghigh, << >>, "exact") :
                pts \in PointSeqs(di), glow \in RangeOpts(di), ghigh \in RangeOpts(di) } :
            di \in 1..MaxDi }

(* Axis positions: every table of three entries over 0..MaxIpos on axis 1, *)
(* NULL or one of three tables on the other axes.                          *)
MaxIpos == 4
IposTables == [1..3 -> 0..MaxIpos]
IposOther == { << >>, <<0, 2, 4>>, <<0, 1, 4>>, <<0, 4, 2>> }
IposOpts(di) == {<< >>} \cup
                { q \in [1..di -> IposTables \cup IposOther] :
                     \A e \in 2..di : q[e] \in IposOther }
IposArgs ==
    UNION { { Arg(di, 1, Uniform(di, 3), 0, 0, 1, OnePoint(di), << >>, << >>, ipos, "exact") :
                ipos \in IposOpts(di) } : di \in 1..MaxDi }

(* Solver: systems whose residual can take any course *)
SolveArgs ==
    { Arg(1, 1, <<r>>, tpsm, 0, 1, OnePoint(1), << >>, << >>, << >>, "any") :
        r \in {3, 9}, tpsm \in {0, 1} }

(* A few calls that between them take every step of the fit *)
CoverArgs ==
    { Arg(1, 2, <<9>>, 1, ZF_ON, -1, OnePoint(1), << >>, << >>, << >>, "exact"),
      Arg(1, 1, <<5>>, 0, 0, 1, OnePoint(1), << >>, << >>, << >>, "any"),
      Arg(1, 1, <<3>>, 0, 0, 1, OnePoint(1), << >>, << >>, <<<<0, 2, 4>>>>, "any") }

-----------------------------------------------------------------------------
(* fit_rspl_imp(): pure parts *)

(* variant: a resolution of 1 is let through *)
ResOkFromOne(r) == r >= 1

(* line 363: a requested resolution is acceptable *)
ResOk(r) == r >= 2

(* variant: the low bound is never lowered *)
ExpandLowKeeps(l, p) == l

(* lines 407-410: one data coordinate widens the grid range *)
ExpandHigh(h, p) == IF p > h THEN p ELSE h
ExpandLow(l, p) == IF p < l THEN p ELSE l

(* lines 405-411: the range after the first n data points *)
RECURSIVE ExpandRange(_, _, _)
ExpandRange(lh, pts, n) ==
    IF n = 0 THEN lh
    ELSE LET prev == ExpandRange(lh, pts, n - 1)
         IN  [l |-> [e \in DOMAIN prev.l |-> ExpandLow(prev.l[e], pts[n][e])],
              h |-> [e \in DOMAIN prev.h |-> ExpandHigh(prev.h[e], pts[n][e])]]

(* variant: only equal positions are too close *)
GapIsZero(a, b) == a = b

(* line 481: two adjacent axis positions are too close *)
GapTooSmall(a, b) == Abs(a - b) < IposMinGap

(* lines 479-483 for one axis: some adjacent pair of the table is too close *)
IposRejected(t, res) == \E i \in 2..res : GapTooSmall(t[i], t[i-1])

(* lines 474-486: the check fails on some supplied axis *)
AnyIposRejected(ipos, res) ==
    /\ ipos # << >>
    /\ \E e \in DOMAIN ipos : ipos[e] # << >> /\ IposRejected(ipos[e], res[e])

(* lines 506-514: number of ladder steps niters-1.                         *)
(* If bres/sres <= GRATIO there is one step.  Otherwise the code takes     *)
(* n = (int)(log(bres/sres)/log(GRATIO) + 0.5), the n with                 *)
(* GRATIO^(n-1/2) <= bres/sres < GRATIO^(n+1/2); squared, in integers:     *)
(* GRATIO^(2n-1) * sres^2 <= bres^2 < GRATIO^(2n+1) * sres^2.              *)
LadderSteps(bres) ==
    IF bres <= GRATIO * SRES THEN 1
    ELSE CHOOSE n \in 1..(bres \div SRES) :
            /\ GRATIO^(2*n - 1) * SRES * SRES <= bres * bres
            /\ bres * bres < GRATIO^(2*n + 1) * SRES * SRES

(* variant: the step ratio is left at GRATIO, not adjusted to bres *)
RungResFixedRatio(bres, i, n) == SRES * GRATIO^i

(* lines 509, 512, 526-529, 536: ires = (int)(res + 0.5) at rung i, where  *)
(* res = sres * gratio^i and gratio = (bres/sres)^(1/n).  It is the k with *)
(* k - 1/2 <= sres * (bres/sres)^(i/n) < k + 1/2; to the power n and times *)
(* 2^n: (2k-1)^n <= 2^n * sres^(n-i) * bres^i < (2k+1)^n.                  *)
RungRes(bres, i, n) ==
    CHOOSE k \in 1..(bres + SRES) :
        /\ (2*k - 1)^n <= 2^n * SRES^(n - i) * bres^i
        /\ 2^n * SRES^(n - i) * bres^i < (2*k + 1)^n

(* variant: a rung keeps the ladder's resolution on every axis *)
IresEntryNoSnap(rung, target) == rung

(* lines 531-534: snap to the requested resolution when close enough *)
IresEntry(rung, target) == IF rung + 1 >= target THEN target ELSE rung

(* lines 526-537: the whole table, ires[nn+1][e] *)
Ladder(res, bres) ==
    LET n == LadderSteps(bres)
    IN  [i \in 1..(n + 1) |->
            [e \in DOMAIN res |-> IresEntry(RungRes(bres, i - 1, n), res[e])]]

-----------------------------------------------------------------------------
(* icoms.c lines 208-217: new_icompaths() callocs the object: no path     *)
(* array, no paths.  added, made and got are history: the paths added      *)
(* since the last clear, the number of paths ever created (path ids are    *)
(* 1, 2, ...), and the last get_path call.                                 *)
NewIcompaths == [alloc |-> FALSE, arr |-> << >>, npaths |-> 0, rv |-> "none",
                 added |-> << >>, made |-> 0,
                 got |-> [port |-> 0, res |-> 0, want |-> 0]]

(* ccss.c new_ccss(): a calloc'ed object; no file written yet *)
(* A string field is TRUE when set, FALSE when NULL; samples likewise.     *)
(* call is history: the last method called, the sample count it was given  *)
(* and whether its input was otherwise acceptable and no allocation failed *)
NewCcss == [no_samp |-> 0, samples |-> FALSE, orig |-> FALSE, crdate |-> FALSE,
            desc |-> FALSE, disp |-> FALSE, tech |-> FALSE, ref |-> FALSE,
            err |-> "", rv |-> 0, file |-> << >>,
            call |-> [op |-> "new", n |-> 0, clean |-> TRUE]]

(* icoms_write_read() has not been called: haswrite and hasread say        *)
(* whether p->write and p->read are set, serial whether the port is        *)
(* neither USB nor HID; calls lists the transport calls made               *)
NoIo == [pc |-> "idle", haswrite |-> FALSE, hasread |-> FALSE, serial |-> FALSE,
         rv |-> "ICOM_OK", ret |-> "none", calls |-> << >>]

(* no numerical routine has been called *)
NoCalc == [op |-> "none"]

(* State after construction of the rspl (di and fdi are fixed by it) *)

NoSolve == [phase |-> "idle", i |-> 0, jitters |-> 0, it |-> 0, max_it |-> 0,
            ni |-> 0, err |-> 0, lerr |-> 0]

InitWith(Args) ==
    /\ in \in Args
    /\ pc = "fit"
    /\ errmsg = ""
    /\ ret = -1
    /\ g = [res |-> << >>, bres |-> 0, brix |-> 0, l |-> << >>, h |-> << >>,
            ipos |-> [e \in 1..in.di |-> << >>], alloc |-> FALSE]
    /\ d_no = 0
    /\ niters = 0
    /\ ires = << >>
    /\ mgtmps = [c \in 1..in.fdi |-> << >>]
    /\ levels = << >>
    /\ f = 0
    /\ donezf = 0
    /\ tpsm2 = 0
    /\ nn = 0
    /\ m = 0
    /\ ccv = [alloc |-> FALSE, deps |-> {}, filtered |-> FALSE, from |-> 0]
    /\ cv = [c \in 1..in.fdi |-> [deps |-> {}, corr |-> 0, last |-> 0]]
    /\ grid = [c \in 1..in.fdi |-> [from |-> 0, deps |-> {}]]
    /\ ip = NewIcompaths
    /\ cs = NewCcss
    /\ calc = NoCalc
    /\ io = NoIo
    /\ sv = NoSolve
    /\ hist = [mono |-> 0, monoret |-> -1, solved |-> 0, capped |-> {},
               ccvcomp |-> 0, ccvfilt |-> 0, stale |-> FALSE]

Fatal(msg) == /\ pc' = "error"
              /\ errmsg' = msg

-----------------------------------------------------------------------------
(* fit_rspl_imp(), lines 300-382: save the flags, check and record the     *)
(* requested resolution and the grid range.                                *)
RecordRange ==
    /\ pc = "fit"
    /\ d_no' = 0
    /\ IF \E e \in 1..in.di : ~ResOk(in.gres[e])
       THEN LET bad == CHOOSE e \in 1..in.di :
                          /\ ~ResOk(in.gres[e])
                          /\ \A k \in 1..(e-1) : ResOk(in.gres[k])
            IN  /\ Fatal("rspl: grid res must be >= 2!")
                /\ g' = [g EXCEPT !.res = SubSeq(in.gres, 1, bad - 1)]
       ELSE /\ pc' = "expand"
            /\ errmsg' = errmsg
            /\ g' = [g EXCEPT
                       !.res = in.gres,
                       !.bres = MaxOf(Range(in.gres)),
                       !.brix = FirstMaxIx(in.gres),
                       !.l = IF in.glow = << >> THEN Uniform(in.di, 0) ELSE in.glow,
                       !.h = IF in.ghigh = << >> THEN Uniform(in.di, 1) ELSE in.ghigh]
    /\ UNCHANGED <<nonfit, in, ret, niters, ires, mgtmps, levels, f, donezf, tpsm2, nn, m,
                   ccv, cv, grid, sv, hist>>

(* lines 384-470: widen the range to cover the data *)
ExpandToData ==
    /\ pc = "expand"
    /\ LET lh == ExpandRange([l |-> g.l, h |-> g.h], in.pts, in.dno)
       IN  g' = [g EXCEPT !.l = lh.l, !.h = lh.h]
    /\ pc' = "ipos"
    /\ UNCHANGED <<nonfit, in, errmsg, ret, d_no, niters, ires, mgtmps, levels, f, donezf,
                   tpsm2, nn, m, ccv, cv, grid, sv, hist>>

(* lines 472-487: copy the axis position tables, checking adjacent gaps *)
SaveIpos ==
    /\ pc = "ipos"
    /\ IF AnyIposRejected(in.ipos, g.res)
       THEN /\ Fatal("rspl: ipos[][] to ipos[][] is nearly zero!")
            /\ g' = g
       ELSE /\ pc' = "alloc_grid"
            /\ errmsg' = errmsg
            /\ g' = [g EXCEPT !.ipos = IF in.ipos = << >> THEN g.ipos ELSE in.ipos]
    /\ UNCHANGED <<nonfit, in, ret, d_no, niters, ires, mgtmps, levels, f, donezf, tpsm2,
                   nn, m, ccv, cv, grid, sv, hist>>

(* lines 489-495: alloc_grid(s), then the mgtmps rows are set to NULL *)
AllocGrid ==
    /\ pc = "alloc_grid"
    /\ g' = [g EXCEPT !.alloc = TRUE]
    /\ mgtmps' = [c \in 1..in.fdi |-> << >>]
    /\ pc' = "ladder"
    /\ UNCHANGED <<nonfit, in, errmsg, ret, d_no, niters, ires, levels, f, donezf, tpsm2,
                   nn, m, ccv, cv, grid, sv, hist>>

(* lines 497-546: the resolution ladder and its closing assertion *)
ComputeLadder ==
    /\ pc = "ladder"
    /\ LET lad == Ladder(g.res, g.bres)
       IN  /\ niters' = Len(lad)
           /\ ires' = lad
           /\ mgtmps' = [c \in 1..in.fdi |-> [i \in 1..Len(lad) |-> 0]]
           /\ IF \E e \in 1..in.di : lad[Len(lad)][e] # g.res[e]
              THEN Fatal("rspl: internal error, final res != intended res")
              ELSE /\ pc' = "add"
                   /\ errmsg' = errmsg
    /\ UNCHANGED <<nonfit, in, ret, g, d_no, levels, f, donezf, tpsm2, nn, m, ccv, cv,
                   grid, sv, hist>>

-----------------------------------------------------------------------------
(* variant: a call without data points goes on to the fit *)
NoDataIgnored(dno) == FALSE

(* line 581: dno == 0, there are no points to initialise from *)
NoData(dno) == dno = 0

(* add_rspl_imp(), lines 572-636: return at once without data, else copy   *)
(* the points (cv = v for every channel) and zero the cj_line arrays.      *)
AddEntry ==
    /\ pc = "add"
    /\ IF NoData(in.dno)
       THEN /\ ret' = 0
            /\ pc' = "done"
            /\ UNCHANGED <<d_no, cv, f>>
       ELSE /\ d_no' = in.dno
            /\ cv' = [c \in 1..in.fdi |-> [deps |-> {c}, corr |-> 0, last |-> 0]]
            /\ f' = 1
            /\ pc' = "chan"
            /\ ret' = ret
    /\ UNCHANGED <<nonfit, in, errmsg, g, niters, ires, mgtmps, levels, donezf, tpsm2, nn,
                   m, ccv, grid, sv, hist>>

(* variant: the loop over channels stops one channel short *)
ChanHeadStopsEarly ==
    /\ pc = "chan"
    /\ IF f < in.fdi
       THEN /\ nn' = 0
            /\ donezf' = 0
            /\ m' = 0
            /\ pc' = "zf"
       ELSE /\ pc' = "mono"
            /\ UNCHANGED <<nn, donezf, m>>
    /\ UNCHANGED <<nonfit, in, errmsg, ret, g, d_no, niters, ires, mgtmps, levels, f, tpsm2,
                   ccv, cv, grid, sv, hist>>

(* line 639-644: head of the loop over output channels *)
ChanHead ==
    /\ pc = "chan"
    /\ IF f <= in.fdi
       THEN /\ nn' = 0
            /\ donezf' = 0
            /\ m' = 0
            /\ pc' = "zf"
       ELSE /\ pc' = "mono"
            /\ UNCHANGED <<nn, donezf, m>>
    /\ UNCHANGED <<nonfit, in, errmsg, ret, g, d_no, niters, ires, mgtmps, levels, f, tpsm2,
                   ccv, cv, grid, sv, hist>>

(* line 646: head of the extra fit loop, donezf <= s->zf *)
ExtraFitHead ==
    /\ pc = "zf"
    /\ IF donezf <= in.zf
       THEN /\ tpsm2' = 0
            /\ pc' = "tp"
       ELSE /\ pc' = "xfer"
            /\ tpsm2' = tpsm2
    /\ UNCHANGED <<nonfit, in, errmsg, ret, g, d_no, niters, ires, mgtmps, levels, f, donezf,
                   nn, m, ccv, cv, grid, sv, hist>>

(* line 648: head of the two pass smoothing loop, s->tpsm2 <= s->tpsm *)
TwoPassHead ==
    /\ pc = "tp"
    /\ IF tpsm2 <= in.tpsm
       THEN /\ nn' = 0
            /\ pc' = "rung"
       ELSE /\ pc' = "zf_end"
            /\ nn' = nn
    /\ UNCHANGED <<nonfit, in, errmsg, ret, g, d_no, niters, ires, mgtmps, levels, f, donezf,
                   tpsm2, m, ccv, cv, grid, sv, hist>>

-----------------------------------------------------------------------------
(* new_mgtmp() *)

(* line 1260: a data coordinate is outside the level's range *)
OutsideGrid(p, l, h) == p < l \/ p > h

(* variant: the curvature weight is taken from channel 1's deviation *)
CwReadsFirst(c) == IF in.tpsm # 0 THEN {}
                   ELSE IF in.smooth >= 0 THEN {1} ELSE {}

(* lines 1219-1237: the channels whose average deviation the curvature     *)
(* weight of a level for channel c reads (opt_smooth(.., s->avgdev[f]))    *)
CwReads(c) == IF in.tpsm # 0 THEN {}
              ELSE IF in.smooth >= 0 THEN {c} ELSE {}

(* lines 341 and 1219-1237: the curvature weight of every axis of a level, *)
(* as a factor k of a positive base: with two pass smoothing 10^-6 * rsm   *)
(* (times 100 on the second sub-pass); else s->smooth * opt_smooth() * rsm *)
(* for s->smooth >= 0 and -s->smooth * rsm in raw mode.  s->smooth is the  *)
(* argument smooth as passed.                                              *)
CurvWeight(smooth, tp, pass) ==
    IF tp # 0 THEN [base |-> "tpsm", k |-> IF pass # 0 THEN 100 ELSE 1]
    ELSE IF smooth >= 0 THEN [base |-> "opt", k |-> smooth]
    ELSE [base |-> "raw", k |-> -smooth]

(* lines 1124-1299: the new level for channel c at resolution res *)
NewMgtmp(res, c) ==
    [f |-> c, nn |-> nn, res |-> res, bres |-> MaxOf(Range(res)), no |-> Prod(res),
     l |-> g.l, h |-> g.h, pass |-> tpsm2, final |-> FALSE, k0w |-> 0, k1w |-> 0,
     cw |-> CurvWeight(in.smooth, in.tpsm, tpsm2),
     zf |-> donezf, ccvgen |-> 0, seed |-> "none", seedok |-> FALSE,
     A |-> FALSE, ccv |-> FALSE, x |-> "unset", xfrom |-> 0,
     live |-> TRUE, frees |-> 0, deps |-> CwReads(c)]

Live == {id \in 1..Len(levels) : levels[id].live}

(* lines 651-654: next rung: m = new_mgtmp(s, s->ires[nn], f), stored in   *)
(* s->mgtmps[f][nn]; new_mgtmp fails on a data point outside the range.    *)
NewLevel ==
    /\ pc = "rung"
    /\ nn < niters
    /\ LET lev == NewMgtmp(ires[nn + 1], f)
       IN  IF \E n \in 1..d_no : \E e \in 1..in.di :
                 OutsideGrid(in.pts[n][e], lev.l[e], lev.h[e])
           THEN /\ Fatal("rspl: Data point outside grid")
                /\ UNCHANGED <<levels, m, mgtmps>>
           ELSE /\ levels' = Append(levels, lev)
                /\ m' = Len(levels) + 1
                /\ mgtmps' = [mgtmps EXCEPT ![f][nn + 1] = Len(levels) + 1]
                /\ pc' = "setup"
                /\ errmsg' = errmsg
    /\ UNCHANGED <<nonfit, in, ret, g, d_no, niters, ires, f, donezf, tpsm2, nn, ccv, cv,
                   grid, sv, hist>>

(* line 651: the ladder loop ends *)
RungsDone ==
    /\ pc = "rung"
    /\ nn >= niters
    /\ pc' = "tp_end"
    /\ UNCHANGED <<nonfit, in, errmsg, ret, g, d_no, niters, ires, mgtmps, levels, f, donezf,
                   tpsm2, nn, m, ccv, cv, grid, sv, hist>>

(* a read through a mgtmp pointer: stale if the level has been freed *)
Stale(id) == id = 0 \/ ~levels[id].live

(* line 660: the value passed as setup_solve's argument final *)
SetupFinal(rung) == TRUE

(* lines 1610-1624: the extra edge weights k0w (outer row) and k1w (second  *)
(* outer row) of setup_solve, in hundredths; EXTRA_SURFACE_SMOOTHING is     *)
(* defined (line 131), and final == 0 resets both to 1.0                    *)
K0W == 200
K1W == 115
KW_NONE == 100
EdgeWeights(final) ==
    IF final THEN [k0w |-> K0W, k1w |-> K1W] ELSE [k0w |-> KW_NONE, k1w |-> KW_NONE]

(* variant: the compensation values are downsampled on both sub-passes *)
UseCcvOnBoth(tp, pass) == tp # 0

(* line 656: s->tpsm && s->tpsm2 != 0, the 2nd pass of 2 pass smoothing *)
UseCcv(tp, pass) == tp # 0 /\ pass # 0

(* lines 656-660: init_ccv(m) on the second sub-pass, then setup_solve().  *)
(* setup_solve reads vw[f], k[f] and cv[f] of the level's own channel, and *)
(* the level's ccv when it has one.                                        *)
SetupLevel ==
    /\ pc = "setup"
    /\ LET useccv == UseCcv(in.tpsm, tpsm2)
           read == {levels[m].f} \cup cv[levels[m].f].deps
                     \cup (IF useccv THEN ccv.deps ELSE {})
       IN  levels' = [levels EXCEPT ![m].ccv = useccv,
                                    ![m].ccvgen = IF useccv THEN hist.ccvcomp ELSE 0,
                                    ![m].A = TRUE,
                                    ![m].final = SetupFinal(nn),
                                    ![m].k0w = EdgeWeights(SetupFinal(nn)).k0w,
                                    ![m].k1w = EdgeWeights(SetupFinal(nn)).k1w,
                                    ![m].deps = @ \cup read]
    /\ pc' = "seed"
    /\ UNCHANGED <<nonfit, in, errmsg, ret, g, d_no, niters, ires, mgtmps, f, donezf, tpsm2,
                   nn, m, ccv, cv, grid, sv, hist>>

(* free_mgtmp(), lines 1303-1318 *)
FreeMgtmp(lv, id) == [lv EXCEPT ![id].live = FALSE, ![id].frees = @ + 1,
                                ![id].A = FALSE, ![id].ccv = FALSE]

(* variant: the two lowest rungs both start from the average *)
SeedAverageTwice(rung) == rung <= 1

(* line 662: nn == 0, the rung that starts from the average data value *)
SeedAverage(rung) == rung = 0

(* lines 662-670: seed x with the channel average (rung 0), or resample    *)
(* the previous rung's solution (init_soln), free that level and clear its *)
(* slot.                                                                   *)
SeedLevel ==
    /\ pc = "seed"
    /\ IF SeedAverage(nn)
       THEN /\ levels' = [levels EXCEPT ![m].x = "avg", ![m].seed = "avg",
                                         ![m].seedok = TRUE,
                                         ![m].deps = @ \cup {levels[m].f}]
            /\ UNCHANGED <<mgtmps, hist>>
       ELSE LET prev == mgtmps[f][nn]
            IN  /\ levels' = FreeMgtmp([levels EXCEPT
                                          ![m].x = "resampled",
                                          ![m].seed = "resampled",
                                          ![m].seedok = /\ ~Stale(prev)
                                                        /\ levels[prev].x = "solved"
                                                        /\ levels[prev].f = levels[m].f
                                                        /\ levels[prev].nn = nn - 1
                                                        /\ levels[prev].frees = 0,
                                          ![m].xfrom = prev,
                                          ![m].deps = @ \cup levels[prev].deps], prev)
                /\ mgtmps' = [mgtmps EXCEPT ![f][nn] = 0]
                /\ hist' = [hist EXCEPT !.stale = @ \/ Stale(prev)]
    /\ pc' = "solve"
    /\ UNCHANGED <<nonfit, in, errmsg, ret, g, d_no, niters, ires, f, donezf, tpsm2, nn, m,
                   ccv, cv, grid, sv>>

-----------------------------------------------------------------------------
(* solve_gres() and cj_line() *)

(* The relative residuals soln_err() and cj_line() can compute *)
ErrVals == {0, TOL, 2 * TOL - 1, 2 * TOL, 3 * TOL, 4 * TOL}
Resid == IF in.conv = "exact" THEN {0} ELSE ErrVals

(* line 2337: small grids are solved directly by one cj_line() call *)
SolveDirect(lev) == lev.bres <= DIRECTRES

(* line 2339: iteration budget of the direct call *)
DirectMaxIt(lev) == CGFACTOR * lev.no

(* lines 2776 and 2831: cj_line's test of the residual *)
LineDone(resid) == resid <= TOL

(* line 2781: cj_line's loop goes on *)
LineGoesOn(it, max_it) == it <= max_it

(* variant: the outer loop has no cap *)
RelaxUncapped(i) == TRUE

(* line 2353: the outer relaxation loop goes on *)
RelaxGoesOn(i) == i < MAXOUTER

(* lines 2365-2374: sweeps in this batch.  ni is declared, and set to 0,   *)
(* inside the loop body, so the estimate of line 2369 multiplies by 0: it  *)
(* is 0 for err > 0 and err # lerr, and 0/0 or inf*0 = NaN otherwise, whose *)
(* conversion to int is undefined (any value).  Then clamped to 1..MAXNI.  *)
Clamp(n) == IF n < 1 THEN 1 ELSE IF n > MAXNI THEN MAXNI ELSE n
BatchSizes(i, jitters, err, lerr) ==
    IF i = jitters THEN {1}
    ELSE IF err = 0 \/ err = lerr THEN {Clamp(n) : n \in {-1, 0, 1, MAXNI, MAXNI + 1}}
    ELSE {Clamp(0)}

(* 0.998^ni in thousandths, rounded down at each factor *)
RECURSIVE ImpPow(_)
ImpPow(ni) == IF ni = 0 THEN 1000 ELSE (ImpPow(ni - 1) * TOL_IMP) \div 1000

(* line 2379 and 2392: derr = pow(err/lerr, 1/ni); derr <= 1.0 && derr >   *)
(* TOL_IMP.  With lerr = 0 derr is inf or NaN and both tests are false.    *)
SlowProgress(err, lerr, ni) ==
    /\ lerr > 0
    /\ err <= lerr
    /\ err * 1000 > ImpPow(ni) * lerr

(* variant: stop on a residual at the tolerance and on any ratio of at     *)
(* least 0.998, a residual that grew included                              *)
RelaxStopsOnGrowth(err, lerr, ni) == err <= TOL \/ err * 1000 >= ImpPow(ni) * lerr

(* line 2392: leave the outer loop *)
RelaxStops(err, lerr, ni) == err < TOL \/ SlowProgress(err, lerr, ni)

(* lines 2337-2351 and cj_line lines 2694-2779: enter the solver *)
SolveStart ==
    /\ pc = "solve"
    /\ sv.phase = "idle"
    /\ \E r \in Resid :
          sv' = IF SolveDirect(levels[m])
                THEN [NoSolve EXCEPT !.phase = "cg", !.it = 1, !.err = r,
                         !.max_it = IF LineDone(r) THEN 0 ELSE DirectMaxIt(levels[m])]
                ELSE [NoSolve EXCEPT !.phase = "relax", !.i = 0, !.err = r,
                         !.jitters = JITTERS]
    /\ hist' = [hist EXCEPT !.stale = @ \/ Stale(m)]
    /\ UNCHANGED <<nonfit, in, pc, errmsg, ret, g, d_no, niters, ires, mgtmps, levels, f,
                   donezf, tpsm2, nn, m, ccv, cv, grid>>

(* cj_line lines 2781-2837: one conjugate gradient iteration *)
LineIter ==
    /\ pc = "solve"
    /\ sv.phase = "cg"
    /\ LineGoesOn(sv.it, sv.max_it)
    /\ \E r \in Resid :
          sv' = IF LineDone(r)
                THEN [sv EXCEPT !.err = r, !.max_it = sv.it, !.phase = "out"]
                ELSE [sv EXCEPT !.err = r, !.it = sv.it + 1]
    /\ UNCHANGED <<nonfit, in, pc, errmsg, ret, g, d_no, niters, ires, mgtmps, levels, f,
                   donezf, tpsm2, nn, m, ccv, cv, grid, hist>>

(* solve_gres lines 2353-2394: one pass of the outer loop: a line-CG pass  *)
(* while i < jitters, else a batch of ni relaxation sweeps; then the new   *)
(* residual and the test of line 2392.                                     *)
RelaxIter ==
    /\ pc = "solve"
    /\ sv.phase = "relax"
    /\ RelaxGoesOn(sv.i)
    /\ \E r \in Resid :
          IF sv.i < sv.jitters
          THEN LET slow == sv.err = 0 \/ r * 10 > 8 * sv.err
                   jit == IF slow THEN sv.i - 1 ELSE sv.jitters
               IN  sv' = IF RelaxStops(r, sv.err, 1)
                         THEN [sv EXCEPT !.lerr = sv.err, !.err = r, !.jitters = jit,
                                         !.phase = "out"]
                         ELSE [sv EXCEPT !.lerr = sv.err, !.err = r, !.jitters = jit,
                                         !.i = sv.i + 1]
          ELSE \E ni \in BatchSizes(sv.i, sv.jitters, sv.err, sv.lerr) :
                  sv' = IF RelaxStops(r, sv.err, ni)
                        THEN [sv EXCEPT !.lerr = sv.err, !.err = r, !.ni = ni,
                                        !.phase = "out"]
                        ELSE [sv EXCEPT !.lerr = sv.err, !.err = r, !.ni = ni,
                                        !.i = sv.i + 1]
    /\ UNCHANGED <<nonfit, in, pc, errmsg, ret, g, d_no, niters, ires, mgtmps, levels, f,
                   donezf, tpsm2, nn, m, ccv, cv, grid, hist>>

(* the solver's loop has ended: by its test, or by its budget *)
SolveOver == \/ sv.phase = "out"
             \/ sv.phase = "cg" /\ ~LineGoesOn(sv.it, sv.max_it)
             \/ sv.phase = "relax" /\ ~RelaxGoesOn(sv.i)

(* the loop ended on its budget with the residual above the tolerance: the *)
(* path ("cg" or "relax") on which that happened                           *)
Capped == IF sv.phase \in {"cg", "relax"} /\ sv.err > TOL THEN {sv.phase} ELSE {}

(* solve_gres returns (no error path), line 680: next rung *)
SolveDone ==
    /\ pc = "solve"
    /\ SolveOver
    /\ levels' = [levels EXCEPT ![m].x = "solved"]
    /\ hist' = [hist EXCEPT !.solved = @ + 1, !.capped = @ \cup Capped]
    /\ sv' = NoSolve
    /\ nn' = nn + 1
    /\ pc' = "rung"
    /\ UNCHANGED <<nonfit, in, errmsg, ret, g, d_no, niters, ires, mgtmps, f, donezf, tpsm2,
                   m, ccv, cv, grid>>

-----------------------------------------------------------------------------
(* lines 682-701: after sub-pass 0 of two pass smoothing, comp_ccv(m)      *)
(* (allocating s->g.ccv if NULL) and filter_ccv(); then s->tpsm2++         *)
TwoPassEnd ==
    /\ pc = "tp_end"
    /\ IF in.tpsm # 0 /\ tpsm2 = 0
       THEN /\ ccv' = [alloc |-> TRUE, deps |-> levels[m].deps, filtered |-> TRUE,
                        from |-> m]
            /\ hist' = [hist EXCEPT !.ccvcomp = @ + 1, !.ccvfilt = @ + 1,
                                    !.stale = @ \/ Stale(m)]
       ELSE UNCHANGED <<ccv, hist>>
    /\ tpsm2' = tpsm2 + 1
    /\ pc' = "tp"
    /\ UNCHANGED <<nonfit, in, errmsg, ret, g, d_no, niters, ires, mgtmps, levels, f, donezf,
                   nn, m, cv, grid, sv>>

(* lines 702-704: comp_extrafit_corr(m) corrects cv[f] from the solution   *)
(* of m; then donezf++                                                     *)
ExtraFitEnd ==
    /\ pc = "zf_end"
    /\ IF in.zf # 0
       THEN /\ cv' = [cv EXCEPT ![levels[m].f].deps = @ \cup levels[m].deps,
                                ![levels[m].f].corr = @ + 1,
                                ![levels[m].f].last = m]
            /\ hist' = [hist EXCEPT !.stale = @ \/ Stale(m)]
       ELSE UNCHANGED <<cv, hist>>
    /\ donezf' = donezf + 1
    /\ pc' = "zf"
    /\ UNCHANGED <<nonfit, in, errmsg, ret, g, d_no, niters, ires, mgtmps, levels, f, tpsm2,
                   nn, m, ccv, grid, sv>>

(* lines 706-718: reset s->tpsm2, free s->g.ccv, copy x of m to the grid   *)
(* values of channel f, free s->mgtmps[f][nn-1] and clear the slot         *)
Transfer ==
    /\ pc = "xfer"
    /\ tpsm2' = 0
    /\ ccv' = [alloc |-> FALSE, deps |-> {}, filtered |-> FALSE, from |-> 0]
    /\ grid' = [grid EXCEPT ![f] = [from |-> m, deps |-> levels[m].deps]]
    /\ hist' = [hist EXCEPT !.stale = @ \/ Stale(m) \/ Stale(mgtmps[f][nn])]
    /\ levels' = FreeMgtmp(levels, mgtmps[f][nn])
    /\ mgtmps' = [mgtmps EXCEPT ![f][nn] = 0]
    /\ f' = f + 1
    /\ pc' = "chan"
    /\ UNCHANGED <<nonfit, in, errmsg, ret, g, d_no, niters, ires, donezf, nn, m, cv, sv>>

(* is_mono(s): implemented in rspl.c; used as a function of the grid that  *)
(* returns 0 or 1 and changes nothing                                      *)
IsMono == {0, 1}

(* lines 722-726: free the cj_line arrays, return is_mono(s) *)
ReturnMono ==
    /\ pc = "mono"
    /\ \E r \in IsMono :
          /\ ret' = r
          /\ hist' = [hist EXCEPT !.mono = @ + 1, !.monoret = r]
    /\ pc' = "done"
    /\ UNCHANGED <<nonfit, in, errmsg, g, d_no, niters, ires, mgtmps, levels, f, donezf,
                   tpsm2, nn, m, ccv, cv, grid, sv>>

-----------------------------------------------------------------------------
Next ==
    \/ RecordRange \/ ExpandToData \/ SaveIpos \/ AllocGrid \/ ComputeLadder
    \/ AddEntry \/ ChanHead \/ ExtraFitHead \/ TwoPassHead
    \/ NewLevel \/ RungsDone \/ SetupLevel \/ SeedLevel
    \/ SolveStart \/ LineIter \/ RelaxIter \/ SolveDone
    \/ TwoPassEnd \/ ExtraFitEnd \/ Transfer \/ ReturnMono

Init == InitWith(MainArgs \cup CoverArgs)
Spec == Init /\ [][Next]_vars

InitLadder == InitWith(LadderArgs \cup CoverArgs)
SpecLadder == InitLadder /\ [][Next]_vars

InitRange == InitWith(RangeArgs \cup CoverArgs)
SpecRange == InitRange /\ [][Next]_vars

InitIpos == InitWith(IposArgs \cup CoverArgs)
SpecIpos == InitIpos /\ [][Next]_vars

(* The fit is one sequential call: whenever a step is possible it is taken *)
InitSolve == InitWith(SolveArgs \cup CoverArgs)
SpecSolve == InitSolve /\ [][Next]_vars /\ WF_vars(Next)

-----------------------------------------------------------------------------
(* icoms.c: the list of instrument paths *)

MaxPaths == 4

(* &icomFakeDevice, and the port number that selects it (line 53) *)
FakeDevice == -1
FAKEPORT == -99

(* variant: the port number is used as a 0-based index *)
GetPathFromZero(p, port) ==
    IF port = FAKEPORT THEN FakeDevice
    ELSE IF port <= 0 \/ port > p.npaths THEN 0
    ELSE p.arr[port + 1]

(* icompaths_get_path(), lines 49-61; C paths[port-1] is arr[port] *)
GetPath(p, port) ==
    IF port = FAKEPORT THEN FakeDevice
    ELSE IF port <= 0 \/ port > p.npaths THEN 0
    ELSE p.arr[port]

(* realloc(p->paths, n entries): the old entries, then uninitialised ones  *)
(* (written -1 here; the code overwrites them before any read)             *)
Realloc(arr, n) == [i \in 1..n |-> IF i <= Len(arr) THEN arr[i] ELSE -1]

(* the path get_path should return: the port-th added since the last clear *)
WantedPath(p, port) ==
    IF port = FAKEPORT THEN FakeDevice
    ELSE IF port >= 1 /\ port <= Len(p.added) THEN p.added[port]
    ELSE 0

(* port numbers asked for *)
Ports == {FAKEPORT} \cup ((-1)..(MaxPaths + 1))

(* a call of get_path *)
PathsGet ==
    /\ \E port \in Ports :
          ip' = [ip EXCEPT !.got = [port |-> port, res |-> GetPath(ip, port),
                                    want |-> WantedPath(ip, port)]]
    /\ UNCHANGED <<fitvars, cs, calc, io>>

(* icompaths_clear(), lines 63-85 *)
PathsClear ==
    /\ ip' = IF ip.alloc
             THEN [ip EXCEPT !.alloc = FALSE, !.arr = << >>, !.npaths = 0,
                             !.added = << >>]
             ELSE ip
    /\ UNCHANGED <<fitvars, cs, calc, io>>

(* icompaths_add_path(), lines 87-112; either allocation can fail *)
PathsAdd ==
    /\ ip.made < MaxPaths
    /\ \E arrfails \in BOOLEAN, pathfails \in BOOLEAN :
          IF arrfails
          THEN ip' = [ip EXCEPT !.rv = "ICOM_SYS"]
          ELSE LET n == ip.npaths
                   a0 == IF ~ip.alloc THEN <<0, 0>>
                         ELSE [Realloc(ip.arr, n + 2) EXCEPT ![n + 2] = 0]
               IN  IF pathfails
                   THEN ip' = [ip EXCEPT !.alloc = TRUE,
                                         !.arr = [a0 EXCEPT ![n + 1] = 0],
                                         !.rv = "ICOM_SYS"]
                   ELSE ip' = [ip EXCEPT !.alloc = TRUE,
                                         !.arr = [a0 EXCEPT ![n + 1] = ip.made + 1,
                                                            ![n + 2] = 0],
                                         !.npaths = n + 1,
                                         !.rv = "ICOM_OK",
                                         !.added = Append(@, ip.made + 1),
                                         !.made = @ + 1]
    /\ UNCHANGED <<fitvars, cs, calc, io>>

PathsNext == PathsAdd \/ PathsClear \/ PathsGet

(* a fit that is not called while the other components are exercised *)
IdleArg == Arg(1, 1, <<2>>, 0, 0, 1, << >>, << >>, << >>, << >>, "exact")
InitIdle == InitWith({IdleArg})
SpecPaths == InitIdle /\ [][PathsNext]_vars

-----------------------------------------------------------------------------
(* ccss.c: colorimeter calibration spectral sets *)

MaxSamp == 5

(* the sample counts that set_ccss/read_ccss reject (no_samp <= 3), and    *)
(* the least that write_ccss accepts (no_samp < 3 is rejected)             *)
SET_REJECT_TO == 3
READ_REJECT_TO == 3
WRITE_MIN == 3

(* free_ccss(), lines 391-414 *)
FreeCcss(p) == [p EXCEPT !.desc = FALSE, !.orig = FALSE, !.crdate = FALSE,
                         !.disp = FALSE, !.tech = FALSE, !.ref = FALSE,
                         !.samples = FALSE, !.no_samp = 0]

(* the strings are copied in this order; the copy tagged fail fails: the   *)
(* position at which the copying stops, Len(order) + 1 when it does not    *)
StopAt(order, a, fail) ==
    IF \E k \in 1..Len(order) : a[order[k]] /\ fail = order[k]
    THEN CHOOSE k \in 1..Len(order) : a[order[k]] /\ fail = order[k]
    ELSE Len(order) + 1

(* the object after copying the strings of a before position stop *)
CopyStrings(p, order, a, stop) ==
    [fld \in DOMAIN p |->
        IF \E k \in 1..(stop - 1) : order[k] = fld THEN a[fld] ELSE p[fld]]

(* line 367: set_ccss rejects this sample count *)
SetRejects(n) == n <= SET_REJECT_TO

(* line 279: read_ccss rejects this number of sets *)
ReadRejects(n) == n <= READ_REJECT_TO

(* line 61: write_ccss rejects this sample count *)
WriteRejects(n) == n < WRITE_MIN

SetOrder == <<"orig", "desc", "crdate", "disp", "tech", "ref">>

(* set_ccss(), lines 306-388 *)
SetCcss(p, a, fail) ==
    LET stop == StopAt(SetOrder, a, fail)
        p1 == CopyStrings(FreeCcss(p), SetOrder, a, stop)
    IN  IF stop <= Len(SetOrder)
        THEN [p1 EXCEPT !.rv = 2, !.err = "set_ccss: malloc failed"]
        ELSE IF SetRejects(a.no_samp)
        THEN [p1 EXCEPT !.no_samp = 0, !.rv = 1,
                        !.err = "Must be at least three spectral samples"]
        ELSE IF fail = "samples"
        THEN [p1 EXCEPT !.no_samp = 0, !.rv = 2, !.err = "Malloc failed!"]
        ELSE [p1 EXCEPT !.no_samp = a.no_samp, !.samples = TRUE, !.rv = 0]

(* write_ccss(), lines 48-151: the file written, << >> if none.  The       *)
(* ORIGINATOR and CREATED keywords are always written.                     *)
WriteCcss(p, fail) ==
    IF WriteRejects(p.no_samp)
    THEN [p EXCEPT !.rv = 1, !.err = "Need at least three spectral samples"]
    ELSE IF ~p.disp /\ ~p.tech
    THEN [p EXCEPT !.rv = 1, !.err = "write_ccss: no display or techology strings"]
    ELSE IF fail = "setel"
    THEN [p EXCEPT !.rv = 2, !.err = "Malloc failed!"]
    ELSE IF fail = "write"
    THEN [p EXCEPT !.rv = 1, !.err = "cgats write failed"]
    ELSE [p EXCEPT !.rv = 0,
                   !.file = [ccss |-> TRUE, orig |-> TRUE, crdate |-> TRUE,
                             desc |-> p.desc, disp |-> p.disp, tech |-> p.tech,
                             ref |-> p.ref, spectral |-> TRUE, nsets |-> p.no_samp]]

ReadOrder == <<"desc", "orig", "crdate", "disp", "tech">>

(* read_ccss(), lines 153-302, of file fl (<< >>: no such file) *)
ReadCcss(p, fl, fail) ==
    IF fail = "cgats"
    THEN [p EXCEPT !.rv = 2, !.err = "read_ccss: new_cgats() failed"]
    ELSE IF fl = << >>
    THEN [p EXCEPT !.rv = 1, !.err = "cgats read failed"]
    ELSE IF ~fl.ccss
    THEN [p EXCEPT !.rv = 1, !.err = "read_ccss: not a CCSS file with one table"]
    ELSE
    LET stop == StopAt(ReadOrder, fl, fail)
        p1 == CopyStrings(FreeCcss(p), ReadOrder, fl, stop)
    IN  IF stop <= Len(ReadOrder)
        THEN [p1 EXCEPT !.rv = 2, !.err = "read_ccss: malloc failed"]
        ELSE IF ~p1.disp /\ ~p1.tech
        THEN [p1 EXCEPT !.rv = 1, !.err = "read_ccss: no keyword DISPLAY or TECHNOLOGY"]
        ELSE IF fl.ref /\ fail = "ref"
        THEN [p1 EXCEPT !.rv = 2, !.err = "read_ccss: malloc failed"]
        ELSE IF ~fl.spectral
        THEN [p1 EXCEPT !.ref = fl.ref, !.rv = 1,
                        !.err = "read_ccss: spectral keyword or field missing"]
        ELSE IF ReadRejects(fl.nsets)
        THEN [p1 EXCEPT !.ref = fl.ref, !.no_samp = 0, !.rv = 1,
                        !.err = "doesn't contain at least three spectral samples"]
        ELSE IF fail = "samples"
        THEN [p1 EXCEPT !.ref = fl.ref, !.no_samp = 0, !.rv = 2, !.err = "Malloc failed!"]
        ELSE [p1 EXCEPT !.ref = fl.ref, !.no_samp = fl.nsets, !.samples = TRUE,
                        !.rv = 0]

(* arguments of set_ccss: display and technology strings, not both; the    *)
(* optional strings orig, crdate, desc and ref come with the display       *)
SetArgs == { [orig |-> dt[1], crdate |-> dt[1], desc |-> dt[1], ref |-> dt[1],
              disp |-> dt[1], tech |-> dt[2], no_samp |-> n] :
             dt \in {<<TRUE, FALSE>>, <<FALSE, TRUE>>, <<FALSE, FALSE>>},
             n \in 0..MaxSamp }

(* files not written by write_ccss: not a CCSS file, or one with a         *)
(* TECHNOLOGY keyword, with or without the spectral keywords and fields    *)
OtherFiles == { [ccss |-> n # 0 \/ sp, orig |-> TRUE, crdate |-> TRUE, desc |-> FALSE,
                 disp |-> FALSE, tech |-> TRUE, ref |-> FALSE, spectral |-> sp,
                 nsets |-> n] :
                sp \in BOOLEAN, n \in 0..MaxSamp }

(* the allocation that fails in a call, if any *)
SetFails == {"none", "disp", "samples"}
WriteFails == {"none", "setel", "write"}
ReadFails == {"none", "cgats", "tech", "samples"}

CcssSet ==
    /\ \E a \in SetArgs, fail \in SetFails :
          cs' = [SetCcss(cs, a, fail) EXCEPT
                    !.call = [op |-> "set", n |-> a.no_samp, clean |-> fail = "none"]]
    /\ UNCHANGED <<fitvars, ip, calc, io>>

CcssWrite ==
    /\ \E fail \in WriteFails :
          cs' = [WriteCcss(cs, fail) EXCEPT
                    !.call = [op |-> "write", n |-> cs.no_samp,
                              clean |-> fail = "none" /\ (cs.disp \/ cs.tech)]]
    /\ UNCHANGED <<fitvars, ip, calc, io>>

CcssRead ==
    /\ \E fl \in {cs.file} \cup OtherFiles, fail \in ReadFails :
          cs' = [ReadCcss(cs, fl, fail) EXCEPT
                    !.call = [op |-> "read", n |-> IF fl = << >> THEN 0 ELSE fl.nsets,
                              clean |-> /\ fail = "none"
                                        /\ fl # << >>
                                        /\ fl.ccss /\ fl.spectral
                                        /\ (fl.disp \/ fl.tech)]]
    /\ UNCHANGED <<fitvars, ip, calc, io>>

CcssNext == CcssSet \/ CcssWrite \/ CcssRead

SpecCcss == InitIdle /\ [][CcssNext]_vars

-----------------------------------------------------------------------------
(* setup_solve(): the packing tables of the sparse matrix A *)

MaxPackRes == 5

(* line 1425: the mark of an offset that has no packed column *)
NOCOL == -2147483647

(* line 1380: the offsets DCOUNT steps through on each axis, -3 .. 3 *)
CubeOffsets == (-3)..3

(* new_mgtmp, lines 1155-1156: the index increment of axis e *)
RECURSIVE Gci(_, _)
Gci(res, e) == IF e = 1 THEN 1 ELSE Gci(res, e - 1) * res[e - 1]

(* lines 1390-1397: how many coordinates of gc have one of the values vs *)
CountOf(gc, di, vs) == Cardinality({k \in 1..di : gc[k] \in vs})

(* lines 1401-1406 (SMOOTH2 is not defined): no +/-2 and no +/-3, or one   *)
(* +/-2 and every other coordinate 0                                       *)
Accepted(gc, di) ==
    \/ CountOf(gc, di, {3, -3}) = 0 /\ CountOf(gc, di, {2, -2}) = 0
    \/ CountOf(gc, di, {2, -2}) = 1 /\ CountOf(gc, di, {0}) = di - 1

(* lines 1407-1408: the grid index offset of the neighbour at gc *)
RECURSIVE GridOffset(_, _, _)
GridOffset(gc, res, k) ==
    IF k = 0 THEN 0 ELSE GridOffset(gc, res, k - 1) + gc[k] * Gci(res, k)

(* lines 1380-1386, 1413: the points DCOUNT steps through, in its order:   *)
(* the first coordinate moves fastest                                      *)
RECURSIVE DcSteps(_)
DcSteps(k) ==
    IF k = 0 THEN << << >> >>
    ELSE LET low == DcSteps(k - 1)
         IN  [i \in 1..(7 * Len(low)) |->
                Append(low[((i - 1) % Len(low)) + 1], ((i - 1) \div Len(low)) - 3)]

(* lines 1380-1428: xcol (packed column k, counted from 1, to offset),     *)
(* ix = xcol[acols-1] + 1 and ixcol (offset to packed column): the last    *)
(* column written for an offset stays; oob says that a write went beyond   *)
(* the ix entries allocated                                                *)
PackTables(di, res) ==
    LET Keeps(gc) == Accepted(gc, di) /\ GridOffset(gc, res, di) >= 0
        st == SelectSeq(DcSteps(di), Keeps)
        acols == Len(st)
        xcol == [j \in 1..acols |-> GridOffset(st[j], res, di)]
        ix == xcol[acols] + 1
    IN  [acols |-> acols, xcol |-> xcol, ix |-> ix,
         ixcol |-> [o \in 0..(ix - 1) |->
                      LET ks == {k \in 1..acols : xcol[k] = o}
                      IN  IF ks = {} THEN NOCOL
                          ELSE CHOOSE k \in ks : \A j \in ks : j <= k],
         oob |-> \E k \in 1..acols : xcol[k] >= ix]

(* the tables of a new level of di axes with resolutions res, built once   *)
(* (line 1379: A == NULL)                                                  *)
PackBuild ==
    /\ calc.op = "none"
    /\ \E di \in 1..MaxLadderDi : \E res \in [1..di -> 2..MaxPackRes] :
          calc' = [op |-> "pack", di |-> di, res |-> res, t |-> PackTables(di, res)]
    /\ UNCHANGED <<fitvars, ip, cs, io>>

PackNext == PackBuild

SpecPack == InitIdle /\ [][PackNext]_vars

-----------------------------------------------------------------------------
(* setup_solve(): the right hand side b and its norm normb.  Values of b   *)
(* are whole multiples of 5e-5, so that the floor 1e-4 is 2 and sums of    *)
(* squares are whole numbers.                                              *)

MaxNodes == 2
MaxTerms == 2

(* line 1814: the floor 1e-4 of normb, in units of 5e-5 *)
NORMB_FLOOR == 2

(* b[] of a new level is zeroed (dvectorz, line 1446) *)
ZeroB == [i \in 1..MaxNodes |-> 0]

(* lines 1666-1669, 1690-1693, 1715-1718: the curvature pass adds the      *)
(* compensation terms to b when the level has a ccv; cc[i] is the sum of   *)
(* the terms of node i                                                     *)
AddCcv(b, cc) == [i \in 1..MaxNodes |-> b[i] + cc[i]]

(* lines 1759-1760 and 1798-1799: one term tt added to b[ai], and the      *)
(* running sum of squares corrected by (b + tt)^2 - b^2                    *)
AddTerm(st, ai, tt) ==
    [b |-> [st.b EXCEPT ![ai] = @ + tt],
     nbsum |-> st.nbsum + (2 * st.b[ai] + tt) * tt]

(* lines 1744-1777: the weak default function adds a term at every node *)
RECURSIVE AddWeak(_, _, _)
AddWeak(st, wd, i) ==
    IF i > MaxNodes THEN st ELSE AddWeak(AddTerm(st, i, wd[i]), wd, i + 1)

(* lines 1782-1810: the terms of the data points, in order *)
RECURSIVE AddData(_, _, _)
AddData(st, terms, n) ==
    IF n > Len(terms) THEN st
    ELSE AddData(AddTerm(st, terms[n].ai, terms[n].tt), terms, n + 1)

(* line 1737: nbsum = 0.0, after the curvature pass *)
StartSum(b) == 0

(* lines 1813-1816: normb = sqrt(nbsum), raised to the floor; the square   *)
(* root of a negative sum is not a number, which no comparison lowers or   *)
(* raises.  The norm is kept as its square.                                *)
NormOf(nbsum) ==
    IF nbsum < 0 THEN [nan |-> TRUE, sq |-> 0]
    ELSE IF nbsum < NORMB_FLOOR * NORMB_FLOOR
         THEN [nan |-> FALSE, sq |-> NORMB_FLOOR * NORMB_FLOOR]
         ELSE [nan |-> FALSE, sq |-> nbsum]

(* lines 1608-1816: b and normb from the compensation terms cc (cc.on is   *)
(* m->q.ccv != NULL), the weak default terms wd (wd.on is s->dfunc !=      *)
(* NULL) and the data terms                                                *)
BuildB(cc, wd, terms) ==
    LET b0 == IF cc.on THEN AddCcv(ZeroB, cc.v) ELSE ZeroB
        s0 == [b |-> b0, nbsum |-> StartSum(b0)]
        s1 == IF wd.on THEN AddWeak(s0, wd.v, 1) ELSE s0
        s2 == AddData(s1, terms, 1)
    IN  [b |-> s2.b, nbsum |-> s2.nbsum, normb |-> NormOf(s2.nbsum)]

NoTerms == [on |-> FALSE, v |-> ZeroB]
CcvTerms == {NoTerms} \cup {[on |-> TRUE, v |-> v] : v \in [1..MaxNodes -> (-1)..1]}
WeakTerms == {NoTerms} \cup {[on |-> TRUE, v |-> v] : v \in [1..MaxNodes -> (-1)..1]}
DataTerm == [ai : 1..MaxNodes, tt : {-1, 1, 2}]
DataTerms == UNION {[1..n -> DataTerm] : n \in 0..MaxTerms}

(* the right hand side of a new level *)
NormBuild ==
    /\ calc.op = "none"
    /\ \E cc \in CcvTerms : \E wd \in WeakTerms : \E terms \in DataTerms :
          calc' = [op |-> "norm", cc |-> cc, wd |-> wd, terms |-> terms,
                   r |-> BuildB(cc, wd, terms)]
    /\ UNCHANGED <<fitvars, ip, cs, io>>

NormNext == NormBuild

SpecNorm == InitIdle /\ [][NormNext]_vars

-----------------------------------------------------------------------------
(* filter_ccv(): a row of compensation values and its extension *)

MaxRow == 4

(* lines 2028-2038: the kernel reaches kmax = -kmin nodes to either side,  *)
(* clipped to 1 .. gres - 1                                                *)
HalfWidths(R) == 1..(R - 1)

(* lines 2092-2097: the row copied to row[0 .. R-1], then row[i] for       *)
(* i = kmin .. -1 set from row[0] and row[-i], then row[i] for             *)
(* i = R-1+kmax down to R set from row[R-1] and row[R-1-i]                 *)
ExtendRow(row, R, hw) ==
    LET low == [i \in (-hw)..(R - 1) |->
                  IF i < 0 THEN 2 * row[0] - row[-i] ELSE row[i]]
    IN  [i \in (-hw)..(R - 1 + hw) |->
           IF i > R - 1 THEN 2 * low[R - 1] - low[R - 1 - i] ELSE low[i]]

(* one row of the filter: copied and extended *)
MirrorRow ==
    /\ calc.op = "none"
    /\ \E R \in 2..MaxRow : \E row \in [0..(R - 1) -> 0..2] : \E hw \in HalfWidths(R) :
          calc' = [op |-> "mirror", R |-> R, row |-> row, hw |-> hw,
                   ext |-> ExtendRow(row, R, hw)]
    /\ UNCHANGED <<fitvars, ip, cs, io>>

FilterNext == MirrorRow

SpecFilter == InitIdle /\ [][FilterNext]_vars

-----------------------------------------------------------------------------
(* icoms.c: icoms_write_read() *)

MaxFlush == 3

(* what a transport method returns: ICOM_OK or an error *)
IcomResults == {"ICOM_OK", "ICOM_TO", "ICOM_SYS", "ICOM_NOTS"}

(* the call of a transport method and what it returned; a read is either   *)
(* one of the flush (no terminator, 0.01 s) or that of the response        *)
IoCall(op, res) == [op |-> op, res |-> res]

FlushReads == Len(SelectSeq(io.calls, LAMBDA c : c.op = "flush"))

(* lines 309-312: without a write or a read method return ICOM_NOTS;       *)
(* lines 314-316: a port that is neither USB nor HID is flushed first      *)
WrEnter ==
    /\ io.pc = "idle"
    /\ \E w \in BOOLEAN : \E r \in BOOLEAN : \E ser \in BOOLEAN :
          io' = [io EXCEPT !.haswrite = w, !.hasread = r, !.serial = ser,
                           !.ret = IF ~w \/ ~r THEN "ICOM_NOTS" ELSE "none",
                           !.pc = IF ~w \/ ~r THEN "ret"
                                  ELSE IF ser THEN "flush" ELSE "write"]
    /\ UNCHANGED <<fitvars, ip, cs, calc>>

(* lines 320-321: for (; rv == ICOM_OK;) rv = p->read(...); the model      *)
(* lets at most MaxFlush reads return ICOM_OK                              *)
WrFlushRead ==
    /\ io.pc = "flush"
    /\ io.rv = "ICOM_OK"
    /\ \E res \in IcomResults :
          /\ res = "ICOM_OK" => FlushReads < MaxFlush
          /\ io' = [io EXCEPT !.rv = res, !.calls = Append(@, IoCall("flush", res))]
    /\ UNCHANGED <<fitvars, ip, cs, calc>>

(* lines 322-323: the flush is over, rv = ICOM_OK *)
WrFlushEnd ==
    /\ io.pc = "flush"
    /\ io.rv # "ICOM_OK"
    /\ io' = [io EXCEPT !.rv = "ICOM_OK", !.pc = "write"]
    /\ UNCHANGED <<fitvars, ip, cs, calc>>

(* variant: a failed write is not noticed *)
WriteFailedUnseen(rv) == FALSE

(* line 331: rv != ICOM_OK after the write *)
WriteFailed(rv) == rv # "ICOM_OK"

(* lines 328-334: write the data; return the error if it failed *)
WrWrite ==
    /\ io.pc = "write"
    /\ \E res \in IcomResults :
          io' = [io EXCEPT !.rv = res, !.calls = Append(@, IoCall("write", res)),
                           !.ret = IF WriteFailed(res) THEN res ELSE @,
                           !.pc = IF WriteFailed(res) THEN "ret" ELSE "read"]
    /\ UNCHANGED <<fitvars, ip, cs, calc>>

(* lines 336-341: read the response and return its result *)
WrRead ==
    /\ io.pc = "read"
    /\ \E res \in IcomResults :
          io' = [io EXCEPT !.rv = res, !.calls = Append(@, IoCall("read", res)),
                           !.ret = res, !.pc = "ret"]
    /\ UNCHANGED <<fitvars, ip, cs, calc>>

IoNext == WrEnter \/ WrFlushRead \/ WrFlushEnd \/ WrWrite \/ WrRead

SpecIo == InitIdle /\ [][IoNext]_vars

-----------------------------------------------------------------------------
(* new_mgtmp() and setup_solve(): the indices used while the system is     *)
(* assembled.  A data position is given per axis in half cell widths from  *)
(* the low end of the grid range; when the range of an axis is empty       *)
(* (h = l) the cell width is 0, t = 0/0 is not a number and its conversion *)
(* to int is undefined: any int may result.                                *)

MaxAsmDi == 2
MaxAsmRes == 4

(* results a conversion of a NaN to int may give *)
UbInts == {-2147483647, -1, 0, 1, 2147483647}

(* lines 1263-1264: mi = (int)floor(t) *)
FloorCell(pos) == IF pos.nan THEN pos.v ELSE pos.v \div 2

(* variant: the base coordinate is limited from below only *)
ClampBaseLow(mi, res) == IF mi < 0 THEN 0 ELSE mi

(* lines 1265-1268: limit to the valid cube base index range *)
ClampBase(mi, res) == IF mi < 0 THEN 0 ELSE IF mi >= res - 1 THEN res - 2 ELSE mi

(* lines 1158-1162: bit e of corner j, and the index offset hi[j] of the   *)
(* corner from the base of the cube                                        *)
CornerBit(j, e) == (j \div 2^(e - 1)) % 2
RECURSIVE HiTo(_, _, _)
HiTo(res, j, e) == IF e = 0 THEN 0 ELSE HiTo(res, j, e - 1) + CornerBit(j, e) * Gci(res, e)

(* the coordinate on axis e of node i, as ECOUNT steps with i *)
NodeCoord(i, res, e) == (i \div Gci(res, e)) % res[e]

(* lines 1269, 1273: the index of the base corner *)
RECURSIVE BaseIx(_, _, _)
BaseIx(mi, res, e) == IF e = 0 THEN 0 ELSE BaseIx(mi, res, e - 1) + mi[e] * Gci(res, e)

(* a step of n nodes along axis e *)
AxisStep(di, e, n) == [k \in 1..di |-> IF k = e THEN n ELSE 0]

(* lines 1649-1719: the entries A[i][ixcol[off]] the curvature pass writes *)
(* at node i for axis e: row, offset looked up and the neighbour's step    *)
CurvWrites(di, res) ==
    LET gno == Gci(res, di + 1)
        at(i, e, n) == [row |-> i, off |-> n * Gci(res, e), d |-> AxisStep(di, e, n)]
    IN  UNION { UNION {
            (IF NodeCoord(i, res, e) - 2 >= 0 THEN {at(i, e, 0)} ELSE {})
            \cup (IF NodeCoord(i, res, e) - 1 >= 0 /\ NodeCoord(i, res, e) + 1 < res[e]
                  THEN {at(i, e, 0), at(i, e, 1)} ELSE {})
            \cup (IF NodeCoord(i, res, e) + 2 < res[e]
                  THEN {at(i, e, 0), at(i, e, 1), at(i, e, 2)} ELSE {})
            : e \in 1..di } : i \in 0..(gno - 1) }

(* lines 1788-1808: the entries written for a data point with base bp *)
DataWrites(di, res, bp) ==
    LET nc == 2^di
        step(j, k) == [e \in 1..di |-> CornerBit(k, e) - CornerBit(j, e)]
    IN  {[row |-> bp + HiTo(res, j, di), off |-> 0, d |-> AxisStep(di, 1, 0)] :
            j \in 0..(nc - 1)}
        \cup {[row |-> bp + HiTo(res, jk[1], di),
               off |-> HiTo(res, jk[2], di) - HiTo(res, jk[1], di),
               d |-> step(jk[1], jk[2])] :
               jk \in {q \in (0..(nc - 1)) \X (0..(nc - 1)) : q[1] < q[2]}}

(* positions of a data point on an axis of resolution r: anywhere from the *)
(* low to the high end, or in an empty range                               *)
AxisPos(r) == {[nan |-> FALSE, v |-> v] : v \in 0..(2 * (r - 1))}
                 \cup {[nan |-> TRUE, v |-> v] : v \in UbInts}

(* a level of di axes with one data point: its base cell, the tables and   *)
(* the entries of A written                                                *)
Assemble ==
    /\ calc.op = "none"
    /\ \E di \in 1..MaxAsmDi : \E res \in [1..di -> 2..MaxAsmRes] :
       \E pt \in {q \in [1..di -> UNION {AxisPos(r) : r \in 2..MaxAsmRes}] :
                     \A e \in 1..di : q[e] \in AxisPos(res[e])} :
          LET mi == [e \in 1..di |-> ClampBase(FloorCell(pt[e]), res[e])]
              bp == BaseIx(mi, res, di)
          IN  calc' = [op |-> "asm", di |-> di, res |-> res, pt |-> pt, mi |-> mi,
                       bp |-> bp, t |-> PackTables(di, res),
                       writes |-> CurvWrites(di, res) \cup DataWrites(di, res, bp)]
    /\ UNCHANGED <<fitvars, ip, cs, io>>

AsmNext == Assemble

SpecAsm == InitIdle /\ [][AsmNext]_vars

-----------------------------------------------------------------------------
(* one_itter1(): one pass of line solves.  For each axis d every line of   *)
(* the grid along d is handed to cj_line(); the start of the line is       *)
(* tracked in sof while the other coordinates gc[] are stepped, the lowest *)
(* of them by two at a time.                                               *)

MaxLineDi == 4
MaxLineRes == 4

(* line 2423: the lowest axis that is not d *)
LowestDim(d) == IF d = 1 THEN 2 ELSE 1

(* variant: no adjustment after the wrap of an even axis *)
CompensateNone(st, ld, res) == st

(* lines 2454-2462: after the wrap of an axis of even resolution the low   *)
(* bit of gc[ld] is flipped                                                *)
Compensate(st, ld, res) ==
    IF st.gc[ld] % 2 = 1
    THEN [gc |-> [st.gc EXCEPT ![ld] = @ - 1], sof |-> st.sof - Gci(res, ld)]
    ELSE [gc |-> [st.gc EXCEPT ![ld] = @ + 1], sof |-> st.sof + Gci(res, ld)]

(* lines 2439-2463: increment the coordinates from axis e on, with carry *)
RECURSIVE IncIndex(_, _, _, _, _)
IncIndex(st, e, d, di, res) ==
    IF e > di THEN st
    ELSE IF e = d THEN IncIndex(st, e + 1, d, di, res)
    ELSE LET ld == LowestDim(d)
             n == IF e = ld THEN 2 ELSE 1
             up == [gc |-> [st.gc EXCEPT ![e] = @ + n], sof |-> st.sof + n * Gci(res, e)]
             wrap == [gc |-> [up.gc EXCEPT ![e] = @ - res[e]],
                      sof |-> up.sof - res[e] * Gci(res, e)]
         IN  IF up.gc[e] < res[e] THEN up
             ELSE IncIndex(IF res[e] % 2 = 0 THEN Compensate(wrap, ld, res) ELSE wrap,
                           e + 1, d, di, res)

(* lines 2465-2467: the pass over axis d ends when every coordinate is 0 *)
AllZero(gc, di) == \A e \in 1..di : gc[e] = 0

(* lines 2422-2428: entry, first axis, coordinates cleared *)
ItterEnter ==
    /\ calc.op = "none"
    /\ \E di \in 1..MaxLineDi : \E res \in [1..di -> 2..MaxLineRes] :
          calc' = [op |-> "itter1", pc |-> "line", di |-> di, res |-> res, d |-> 1,
                   gc |-> [e \in 1..di |-> 0], sof |-> 0,
                   solved |-> {}, again |-> FALSE, n |-> 0]
    /\ UNCHANGED <<fitvars, ip, cs, io>>

(* lines 2432-2468: solve the line at sof along d, then step to the next *)
ItterLine ==
    /\ calc.op = "itter1"
    /\ calc.pc = "line"
    /\ LET st == IncIndex([gc |-> calc.gc, sof |-> calc.sof], 1, calc.d, calc.di, calc.res)
       IN  calc' = [calc EXCEPT !.solved = @ \cup {<<calc.d, calc.sof>>},
                                !.again = @ \/ <<calc.d, calc.sof>> \in calc.solved,
                                !.n = @ + 1,
                                !.gc = st.gc,
                                !.sof = st.sof,
                                !.pc = IF AllZero(st.gc, calc.di) THEN "dim" ELSE "line"]
    /\ UNCHANGED <<fitvars, ip, cs, io>>

(* lines 2422, 2471: the next axis, or the return through soln_err() *)
ItterDim ==
    /\ calc.op = "itter1"
    /\ calc.pc = "dim"
    /\ calc' = IF calc.d < calc.di
               THEN [calc EXCEPT !.d = @ + 1, !.pc = "line",
                                 !.gc = [e \in 1..calc.di |-> 0], !.sof = 0]
               ELSE [calc EXCEPT !.pc = "done"]
    /\ UNCHANGED <<fitvars, ip, cs, io>>

ItterNext == ItterEnter \/ ItterLine \/ ItterDim

SpecItter == InitIdle /\ [][ItterNext]_vars

-----------------------------------------------------------------------------
(* The values of a double: a finite number (an integer of the model's      *)
(* unit), an infinity with its sign, or not a number; and the arithmetic   *)
(* of doubles on them.  The quotient of two finite numbers is rounded      *)
(* down; the sign of a zero is not kept.                                   *)

Fin(n) == [k |-> "fin", v |-> n]
PInf == [k |-> "inf", v |-> 1]
NInf == [k |-> "inf", v |-> -1]
NaN == [k |-> "nan", v |-> 0]

Sgn(n) == IF n > 0 THEN 1 ELSE IF n < 0 THEN -1 ELSE 0

VNeg(a) == [a EXCEPT !.v = -@]

VAdd(a, b) ==
    IF a.k = "nan" \/ b.k = "nan" THEN NaN
    ELSE IF a.k = "fin" /\ b.k = "fin" THEN Fin(a.v + b.v)
    ELSE IF a.k = "inf" /\ b.k = "inf" THEN (IF a.v = b.v THEN a ELSE NaN)
    ELSE IF a.k = "inf" THEN a ELSE b

VSub(a, b) == VAdd(a, VNeg(b))

VMul(a, b) ==
    IF a.k = "nan" \/ b.k = "nan" THEN NaN
    ELSE IF a.k = "fin" /\ b.k = "fin" THEN Fin(a.v * b.v)
    ELSE IF Sgn(a.v) * Sgn(b.v) = 0 THEN NaN
    ELSE [k |-> "inf", v |-> Sgn(a.v) * Sgn(b.v)]

VDiv(a, b) ==
    IF a.k = "nan" \/ b.k = "nan" THEN NaN
    ELSE IF a.k = "inf" THEN (IF b.k = "inf" THEN NaN
                              ELSE [k |-> "inf", v |-> IF b.v < 0 THEN -a.v ELSE a.v])
    ELSE IF b.k = "inf" THEN Fin(0)
    ELSE IF b.v = 0 THEN (IF a.v = 0 THEN NaN ELSE [k |-> "inf", v |-> Sgn(a.v)])
    ELSE Fin(a.v \div b.v)

(* (a / b) * c, the product taken first when all three are finite *)
VScale(a, b, c) ==
    IF a.k = "fin" /\ b.k = "fin" /\ c.k = "fin" /\ b.v # 0
    THEN Fin((a.v * c.v) \div b.v)
    ELSE VMul(VDiv(a, b), c)

(* a != 0.0 and a <= n in C: a NaN is not equal and not below *)
VNonZero(a) == ~(a.k = "fin" /\ a.v = 0)
VLe(a, n) == (a.k = "fin" /\ a.v <= n) \/ (a.k = "inf" /\ a.v < 0)

RECURSIVE VDotTo(_, _, _)
VDotTo(u, v, n) ==
    IF n = 0 THEN Fin(0) ELSE VAdd(VDotTo(u, v, n - 1), VMul(u[n - 1], v[n - 1]))

-----------------------------------------------------------------------------
(* cj_line(): conjugate gradient solve of one line of x[].  A read of x[]  *)
(* outside the array, which the loops unrolled by four can make when       *)
(* xcol[] is not rising, yields an arbitrary value g, and so does a        *)
(* product read through a row of A[][] outside the array.                  *)

MaxCjDi == 2
MaxCjRes == 3

(* the iteration limits passed in *)
CjMaxIts == {0, 1, 2}
(* squares of the tolerances passed in *)
CjTols == {0, 4}
(* values a read outside an array may give *)
CjGarbage == {Fin(0), Fin(7)}

(* variant: the entries of the line taken one apart *)
LineIxUnit(sof, inc, i) == sof + i

(* lines 2700, 2707, 2756: ii runs from sof in steps of inc *)
LineIx(sof, inc, i) == sof + i * inc

(* xcol[k], k counted from 0 *)
Xc(c, k) == c.t.xcol[k + 1]

(* A[row][k] * x[at] as read by the code *)
Term(c, row, k, at) ==
    IF row < 0 \/ row >= c.gno THEN c.g
    ELSE VMul(c.A[row][k], IF at < 0 \/ at >= c.gno THEN c.g ELSE c.x[at])

RECURSIVE RightRest(_, _, _, _)
(* lines 2722-2723 and 2763-2764: diagonal and to the right, one at a time *)
RightRest(c, ii, k, sm) ==
    IF k < c.t.acols /\ ii + Xc(c, k) < c.gno
    THEN RightRest(c, ii, k + 1, VAdd(sm, Term(c, ii, k, ii + Xc(c, k))))
    ELSE sm

RECURSIVE RightFours(_, _, _, _)
(* lines 2712-2720: diagonal and to the right in fours *)
RightFours(c, ii, k, sm) ==
    IF k + 3 < c.t.acols /\ ii + Xc(c, k + 3) < c.gno
    THEN RightFours(c, ii, k + 4,
            VAdd(VAdd(VAdd(VAdd(sm, Term(c, ii, k, ii + Xc(c, k))),
                           Term(c, ii, k + 1, ii + Xc(c, k + 1))),
                      Term(c, ii, k + 2, ii + Xc(c, k + 2))),
                 Term(c, ii, k + 3, ii + Xc(c, k + 3))))
    ELSE RightRest(c, ii, k, sm)

RECURSIVE LeftRest(_, _, _, _)
(* lines 2738-2739 and 2765-2766: left of the diagonal, one at a time *)
LeftRest(c, ii, k, sm) ==
    IF k < c.t.acols /\ ii - Xc(c, k) >= 0
    THEN LeftRest(c, ii, k + 1, VAdd(sm, Term(c, ii - Xc(c, k), k, ii - Xc(c, k))))
    ELSE sm

RECURSIVE LeftFours(_, _, _, _)
(* lines 2728-2736: left of the diagonal in fours *)
LeftFours(c, ii, k, sm) ==
    IF k + 3 < c.t.acols /\ ii - Xc(c, k + 3) >= 0
    THEN LeftFours(c, ii, k + 4,
            VAdd(VAdd(VAdd(VAdd(sm, Term(c, ii - Xc(c, k), k, ii - Xc(c, k))),
                           Term(c, ii - Xc(c, k + 1), k + 1, ii - Xc(c, k + 1))),
                      Term(c, ii - Xc(c, k + 2), k + 2, ii - Xc(c, k + 2))),
                 Term(c, ii - Xc(c, k + 3), k + 3, ii - Xc(c, k + 3))))
    ELSE LeftRest(c, ii, k, sm)

(* lines 2707-2741: one element of A * x *)
RowAx(c, ii) == LeftFours(c, ii, 1, RightFours(c, ii, 0, Fin(0)))

(* lines 2761-2767: one element of n = A * x with the line cleared *)
RowN(c, ii) == LeftRest(c, ii, 1, RightRest(c, ii, 0, Fin(0)))

RECURSIVE RowQ(_, _, _)
(* lines 2803-2811: the terms of A * p off the diagonal, columns from k on *)
RowQ(c, ii, k) ==
    IF k >= c.t.acols THEN Fin(0)
    ELSE VAdd(VAdd(IF ii + Xc(c, k) < c.gno
                   THEN VMul(c.A[ii][k], c.x[ii + Xc(c, k)]) ELSE Fin(0),
                   IF ii - Xc(c, k) >= 0
                   THEN VMul(c.A[ii - Xc(c, k)][k], c.x[ii - Xc(c, k)]) ELSE Fin(0)),
              RowQ(c, ii, k + 1))

(* the line's values of a vector over the grid *)
OnLine(c, v) == [i \in 0..(c.nid - 1) |-> v[LineIx(c.sof, c.inc, i)]]

(* x[] with the line's entries replaced by those of v *)
PutLine(c, v) ==
    LET at == {LineIx(c.sof, c.inc, i) : i \in 0..(c.nid - 1)}
        ofix(ii) == CHOOSE i \in 0..(c.nid - 1) : LineIx(c.sof, c.inc, i) = ii
    IN  [ii \in (DOMAIN c.x) \cup at |-> IF ii \in at THEN v[ofix(ii)] ELSE c.x[ii]]

(* the lines handed to cj_line(): the whole grid as one line (solve_gres,  *)
(* line 2339) or one line along an axis (one_itter1, line 2436)            *)
CjLines(di, res) ==
    {[sof |-> 0, nid |-> Gci(res, di + 1), inc |-> 1]}
    \cup UNION {{[sof |-> i, nid |-> res[d], inc |-> Gci(res, d)] :
                    i \in {j \in 0..(Gci(res, di + 1) - 1) : NodeCoord(j, res, d) = 0}} :
                d \in 1..di}

(* lines 2694-2742: entry with the arguments c: the norm of b[] on the     *)
(* line and r = b - A * x                                                  *)
CjStart(c) ==
    LET sb == VDotTo(OnLine(c, c.b), OnLine(c, c.b), c.nid)
    IN  [c EXCEPT !.normb2 = IF VNonZero(sb) THEN sb ELSE Fin(1),
                  !.r = [i \in 0..(c.nid - 1) |->
                            VSub(c.b[LineIx(c.sof, c.inc, i)],
                                 RowAx(c, LineIx(c.sof, c.inc, i)))]]

(* the arguments of a line solve and its locals before the first statement *)
CjCall(t, gno, ln, A, x, b, mx, tol2, gv, by) ==
    [op |-> "cj", pc |-> "save", by |-> by, t |-> [acols |-> t.acols, xcol |-> t.xcol],
     gno |-> gno, sof |-> ln.sof, nid |-> ln.nid, inc |-> ln.inc,
     max_it |-> mx, tol2 |-> tol2, g |-> gv,
     A |-> A, b |-> b, x |-> x, A0 |-> A, b0 |-> b, x0 |-> x,
     normb2 |-> Fin(0), r |-> << >>, xx |-> << >>, n |-> << >>, early |-> FALSE,
     it |-> 1, rho_1 |-> Fin(0)]

CjEnter ==
    /\ calc.op = "none"
    /\ \E di \in 1..MaxCjDi : \E res \in [1..di -> 2..MaxCjRes] :
       \E t \in {PackTables(di, res)} :
       \E ln \in CjLines(di, res) :
       \E dg \in {0, 2} : \E od \in {-1, 0} : \E bb \in 0..1 :
       \E mx \in CjMaxIts : \E tol2 \in CjTols : \E gv \in CjGarbage :
          LET gno == Gci(res, di + 1)
              A == [i \in 0..(gno - 1) |->
                      [k \in 0..(t.acols - 1) |-> Fin(IF k = 0 THEN dg ELSE od)]]
              x == [i \in 0..(gno - 1) |-> Fin(1 + i)]
              b == [i \in 0..(gno - 1) |-> Fin((i % 2) * bb)]
          IN  calc' = CjStart(CjCall(t, gno, ln, A, x, b, mx, tol2, gv, "call"))
    /\ UNCHANGED <<fitvars, ip, cs, io>>

(* resid <= tol, with resid = sqrt(rr) / normb *)
WithinTol(c, rr) ==
    c.normb2.k = "fin" /\ VLe(rr, c.tol2 * c.normb2.v)

(* lines 2744-2779: the line is moved to xx[] and cleared, n = A * x, and  *)
(* no iteration is made when the residual is within the tolerance          *)
CjSave ==
    /\ calc.op = "cj"
    /\ calc.pc = "save"
    /\ LET c == [calc EXCEPT !.xx = OnLine(calc, calc.x),
                             !.x = PutLine(calc, [i \in 0..(calc.nid - 1) |-> Fin(0)])]
           early == WithinTol(c, VDotTo(c.r, c.r, c.nid))
       IN  calc' = [c EXCEPT !.n = [i \in 0..(c.nid - 1) |-> RowN(c, LineIx(c.sof, c.inc, i))],
                             !.early = early,
                             !.max_it = IF early THEN 0 ELSE @,
                             !.pc = IF early \/ c.max_it < 1 THEN "restore" ELSE "iter"]
    /\ UNCHANGED <<fitvars, ip, cs, io>>

(* lines 2781-2836: one iteration: z, p in place of the line of x[],       *)
(* q = A * p - n, alpha, and the step of xx[] and r[].  An iteration that  *)
(* leaves every value as it was is the same until max_it is reached.       *)
CjIter ==
    /\ calc.op = "cj"
    /\ calc.pc = "iter"
    /\ LET ix(i) == LineIx(calc.sof, calc.inc, i)
           line == 0..(calc.nid - 1)
           z == [i \in line |->
                    IF VNonZero(calc.A[ix(i)][0]) THEN VDiv(calc.r[i], calc.A[ix(i)][0])
                    ELSE calc.r[i]]
           rho == VDotTo(calc.r, z, calc.nid)
           p == [i \in line |->
                    IF calc.it = 1 THEN z[i]
                    ELSE VAdd(z[i], VScale(rho, calc.rho_1, calc.x[ix(i)]))]
           c == [calc EXCEPT !.x = PutLine(calc, p)]
           q == [i \in line |->
                    VSub(VAdd(VMul(c.A[ix(i)][0], c.x[ix(i)]), RowQ(c, ix(i), 1)), c.n[i])]
           pq == VDotTo(q, p, c.nid)
           step(v) == IF VNonZero(pq) THEN VScale(rho, pq, v) ELSE VScale(Fin(1), Fin(2), v)
           xx == [i \in line |-> VAdd(c.xx[i], step(p[i]))]
           r == [i \in line |-> VSub(c.r[i], step(q[i]))]
           stop == WithinTol(c, VDotTo(r, r, c.nid)) \/ c.it >= c.max_it
           same == xx = c.xx /\ r = c.r /\ c.x = calc.x /\ rho = c.rho_1
       IN  calc' = [c EXCEPT !.xx = xx, !.r = r, !.rho_1 = rho,
                             !.it = IF stop THEN @ ELSE IF same THEN c.max_it ELSE @ + 1,
                             !.pc = IF stop THEN "restore" ELSE "iter"]
    /\ UNCHANGED <<fitvars, ip, cs, io>>

(* lines 2838-2843: the solution is put back into the line of x[] *)
CjRestore ==
    /\ calc.op = "cj"
    /\ calc.pc = "restore"
    /\ calc' = [calc EXCEPT !.x = PutLine(calc, calc.xx), !.pc = "done"]
    /\ UNCHANGED <<fitvars, ip, cs, io>>

CjNext == CjEnter \/ CjSave \/ CjIter \/ CjRestore

SpecCj == InitIdle /\ [][CjNext]_vars

-----------------------------------------------------------------------------
(* setup_solve() and solve_gres() for a level without data points, weak    *)
(* default function or curvature compensation: A holds the curvature       *)
(* terms only and b is 0.  Weights are in halves and the edge factors in   *)
(* hundredths, so every entry of A is the curvature weight cw times an     *)
(* integer.                                                                *)

MaxCurvDi == 2
MaxCurvRes == 5

(* lines 1619-1621: oawt = wvals[0] * (wvals[1] + .. + wvals[20]); the     *)
(* table wvals[] is declared outside this file                             *)
Oawt == 1

(* the spacings of the nodes of an axis: ipos[] absent, or cells of width  *)
(* 1 and 4 in turn                                                         *)
IposPats == {"none", "short", "long"}
CellWidth(pat, j) ==
    IF pat = "short" THEN (IF j % 2 = 0 THEN 1 ELSE 4)
    ELSE IF pat = "long" THEN (IF j % 2 = 0 THEN 4 ELSE 1)
    ELSE 1

(* lines 1678-1685 and alike: w0 = tt / w0, w1 = tt / w1 with              *)
(* tt = sqrt(w0 * w1), for the cell pair around node c, in halves          *)
PairW(pat, c) ==
    IF pat = "none" THEN [w0 |-> 2, w1 |-> 2]
    ELSE LET a == CellWidth(pat, c - 1)
             bw == CellWidth(pat, c)
             tt == CHOOSE r \in 1..4 : r * r = a * bw
         IN  [w0 |-> (2 * tt) \div a, w1 |-> (2 * tt) \div bw]

(* lines 1165-1167 and 1205-1216: rsm = (mres - 1)^4 / nigc with           *)
(* nigc = prod (gres[e] - 2); a finite rsm is the unit of the entries of A *)
Nigc(di, res) == Prod([e \in 1..di |-> res[e] - 2])
Rsm(di, res) == IF Nigc(di, res) = 0 THEN VDiv(Fin(1), Fin(0)) ELSE Fin(1)

(* lines 1229-1233 and 1635-1637: cw = 2 * s->smooth * opt_smooth() * rsm  *)
(* * vw                                                                    *)
CwOf(smooth, di, res) == VMul(Fin(smooth), Rsm(di, res))

(* lines 1639-1647: the factor for the position on the other axes *)
RECURSIVE OtherAxes(_, _, _, _, _)
OtherAxes(gc, res, e, kk, ew) ==
    IF kk = 0 THEN 1
    ELSE OtherAxes(gc, res, e, kk - 1, ew)
         * (IF kk = e THEN 1
            ELSE IF gc[kk] = 0 \/ gc[kk] = res[kk] - 1 THEN ew.k0w
            ELSE IF gc[kk] = 1 \/ gc[kk] = res[kk] - 2 THEN ew.k1w
            ELSE KW_NONE)

(* lines 1661-1664, 1684-1687, 1708-1711: the factor of the cell pair      *)
(* whose lowest node is lo and highest node is hi                          *)
EdgeK(lo, hi, r, ew) ==
    IF lo = 0 \/ hi = r - 1 THEN ew.k0w
    ELSE IF lo = 1 \/ hi = r - 2 THEN ew.k1w
    ELSE KW_NONE

(* lines 1649-1719: what node i adds to column col of its row for axis e *)
CurvTerms(i, e, col, di, res, pats, ew, t) ==
    LET gc == [k \in 1..di |-> NodeCoord(i, res, k)]
        xx == OtherAxes(gc, res, e, di, ew)
        c0 == t.ixcol[0] - 1
        c1 == IF Gci(res, e) < t.ix THEN t.ixcol[Gci(res, e)] - 1 ELSE -1
        c2 == IF 2 * Gci(res, e) < t.ix THEN t.ixcol[2 * Gci(res, e)] - 1 ELSE -1
        on(cc, v) == IF cc = col THEN v ELSE 0
        below == IF gc[e] - 2 >= 0
                 THEN LET w == PairW(pats[e], gc[e] - 1)
                          kw == xx * EdgeK(gc[e] - 2, gc[e], res[e], ew)
                      IN  on(c0, kw * w.w1 * w.w1)
                 ELSE 0
        this == IF gc[e] - 1 >= 0 /\ gc[e] + 1 < res[e]
                THEN LET w == PairW(pats[e], gc[e])
                         kw == xx * EdgeK(gc[e] - 1, gc[e] + 1, res[e], ew)
                     IN  on(c0, kw * (w.w0 + w.w1) * (w.w0 + w.w1))
                         + on(c1, 0 - kw * (w.w0 + w.w1) * w.w1 * Oawt)
                ELSE 0
        above == IF gc[e] + 2 < res[e]
                 THEN LET w == PairW(pats[e], gc[e] + 1)
                          kw == xx * EdgeK(gc[e], gc[e] + 2, res[e], ew)
                      IN  on(c0, kw * w.w0 * w.w0)
                          + on(c1, 0 - kw * w.w0 * (w.w0 + w.w1))
                          + on(c2, kw * w.w0 * w.w1)
                 ELSE 0
    IN  below + this + above

RECURSIVE CurvCoef(_, _, _, _, _, _, _, _)
CurvCoef(i, e, col, di, res, pats, ew, t) ==
    IF e = 0 THEN 0
    ELSE CurvCoef(i, e - 1, col, di, res, pats, ew, t)
         + CurvTerms(i, e, col, di, res, pats, ew, t)

(* lines 1626-1722: A after the curvature pass.  The terms added to one    *)
(* entry have one sign, so the entry is cw times their sum; an entry       *)
(* nothing is added to stays 0.                                            *)
CurvA(cw, di, res, pats, ew, t) ==
    [i \in 0..(Gci(res, di + 1) - 1) |->
       [col \in 0..(t.acols - 1) |->
          LET cf == CurvCoef(i, di, col, di, res, pats, ew, t)
          IN  IF cf = 0 THEN Fin(0) ELSE VMul(cw, Fin(cf))]]

(* setup_solve(m, final) on a new level, and the seed put into x *)
CurvBuild ==
    /\ calc.op = "none"
    /\ \E di \in 1..MaxCurvDi : \E res \in [1..di -> 2..MaxCurvRes] :
       \E t \in {PackTables(di, res)} :
       \E final \in BOOLEAN : \E smooth \in 0..1 : \E u \in {0, 3} :
       \E pats \in [1..di -> IposPats] : \E gv \in CjGarbage :
          LET gno == Gci(res, di + 1)
              A == CurvA(CwOf(smooth, di, res), di, res, pats, EdgeWeights(final), t)
              x == [i \in 0..(gno - 1) |-> Fin(u)]
          IN  calc' = [op |-> "curv", pc |-> "built", di |-> di, res |-> res,
                       bres |-> MaxOf({res[e] : e \in 1..di}),
                       final |-> final, smooth |-> smooth, pats |-> pats,
                       t |-> [acols |-> t.acols, xcol |-> t.xcol], gno |-> gno, g |-> gv,
                       A |-> A, x |-> x, x0 |-> x, b |-> [i \in 0..(gno - 1) |-> Fin(0)],
                       i |-> 0, err |-> Fin(0)]
    /\ UNCHANGED <<fitvars, ip, cs, io>>

(* soln_err(), lines 2569-2621: the sum of squares of b - A * x; normb is  *)
(* 1 for b = 0                                                             *)
RECURSIVE SolnErrTo(_, _)
SolnErrTo(c, n) ==
    IF n = 0 THEN Fin(0)
    ELSE LET d == VSub(c.b[n - 1], RowAx(c, n - 1))
         IN  VAdd(SolnErrTo(c, n - 1), VMul(d, d))

(* one_itter2(), lines 2495-2562 without RED_BLACK and with ovsh = 1: the  *)
(* nodes from i on are relaxed in turn                                     *)
RECURSIVE Relax(_, _)
Relax(c, i) ==
    IF i >= c.gno THEN c.x
    ELSE LET sm == LeftFours(c, i, 1, RightFours(c, i, 1, Fin(0)))
             nx == VAdd(c.x[i], VSub(VDiv(VSub(c.b[i], sm), c.A[i][0]), c.x[i]))
         IN  Relax([c EXCEPT !.x[i] = nx], i + 1)

(* ni calls of one_itter2(); a sweep that changes nothing ends them *)
RECURSIVE Sweeps(_, _)
Sweeps(c, ni) ==
    IF ni = 0 THEN c.x
    ELSE LET y == Relax(c, 0)
         IN  IF y = c.x THEN y ELSE Sweeps([c EXCEPT !.x = y], ni - 1)

(* lines 2337-2350: entry of solve_gres(): the whole grid is handed to     *)
(* cj_line() for bres <= 4, else the first error is taken.  The tolerance  *)
(* is below one unit.                                                      *)
CurvSolve ==
    /\ calc.op = "curv"
    /\ calc.pc = "built"
    /\ IF calc.bres <= DIRECTRES
       THEN calc' = CjStart(CjCall(calc.t, calc.gno,
                                   [sof |-> 0, nid |-> calc.gno, inc |-> 1],
                                   calc.A, calc.x, calc.b, CGFACTOR * calc.gno, 0, calc.g,
                                   "solve_gres"))
       ELSE calc' = [calc EXCEPT !.pc = "relax", !.err = SolnErrTo(calc, calc.gno)]
    /\ UNCHANGED <<fitvars, ip, cs, io>>

(* lines 2352-2393: one round of the relaxation loop.  err < tol only for  *)
(* err = 0.  The first round makes one sweep; later ni comes from the      *)
(* logarithms of the errors (any of 1..MAXNI when they are not numbers),   *)
(* and a slow improvement may end the loop.  A round that changes nothing  *)
(* is the same until the last.                                             *)
CurvRelax ==
    /\ calc.op = "curv"
    /\ calc.pc = "relax"
    /\ \E ni \in 1..MAXNI : \E slow \in BOOLEAN :
          /\ calc.i = 0 => ni = 1 /\ ~slow
          /\ LET y == Sweeps(calc, ni)
                 c == [calc EXCEPT !.x = y]
                 err == SolnErrTo(c, c.gno)
                 lerr == calc.err
                 mayslow == err.k = "fin" /\ lerr.k = "fin" /\ err.v > 0 /\ err.v <= lerr.v
                 stop == (err.k = "fin" /\ err.v = 0) \/ (mayslow /\ slow)
                 same == y = calc.x /\ err = lerr
             IN  /\ slow => mayslow
                 /\ calc' = [c EXCEPT !.err = err,
                                      !.i = IF stop THEN @ ELSE IF same THEN MAXOUTER ELSE @ + 1,
                                      !.pc = IF stop \/ same \/ c.i + 1 >= MAXOUTER
                                             THEN "done" ELSE "relax"]
    /\ UNCHANGED <<fitvars, ip, cs, io>>

CurvNext == CurvBuild \/ CurvSolve \/ CurvRelax \/ CjSave \/ CjIter \/ CjRestore

SpecCurv == InitIdle /\ [][CurvNext]_vars

-----------------------------------------------------------------------------
(* Properties *)

ResMsg == "rspl: grid res must be >= 2!"
IposMsg == "rspl: ipos[][] to ipos[][] is nearly zero!"
LadderMsg == "rspl: internal error, final res != intended res"
OutsideMsg == "rspl: Data point outside grid"

(* C1: once the ladder has been computed, its last rung (niters-1) holds   *)
(* the requested resolution on every axis, and the closing "final res !=   *)
(* intended res" error is never raised.                                    *)
C1_LastRungIsRequested ==
    /\ niters > 0 => \A e \in 1..in.di : ires[niters][e] = in.gres[e]
    /\ errmsg # LadderMsg

(* a ladder of four rungs over axes of different resolution, one of them   *)
(* reaching its resolution before the last rung                            *)
C1_Witness ==
    /\ pc = "done"
    /\ in.di >= 2
    /\ niters = 4
    /\ in.gres[1] < in.gres[2]
    /\ ires[niters - 1][1] = in.gres[1]
    /\ ires[niters] = in.gres

(* C2: at every point of a fit at most two levels are allocated and not    *)
(* yet freed.                                                              *)
C2_AtMostTwoLevels == Cardinality(Live) <= 2

(* C3: when the fit returns every level created has been freed exactly     *)
(* once, none is still allocated, and every slot of the per channel level  *)
(* table is NULL; no level is ever freed twice.                            *)
C3_EveryLevelFreedOnce ==
    /\ \A id \in 1..Len(levels) : levels[id].frees <= 1
    /\ pc = "done" =>
          /\ \A id \in 1..Len(levels) : levels[id].frees = 1 /\ ~levels[id].live
          /\ \A c \in 1..in.fdi : \A i \in 1..Len(mgtmps[c]) : mgtmps[c][i] = 0

(* C4: with a requested resolution below 2 on some axis the fit never gets *)
(* past its first check: the grid is not allocated, no ladder is computed, *)
(* no level is built, and the only way on is the fatal error.              *)
C4_LowResFailsFirst ==
    (\E e \in 1..in.di : in.gres[e] < 2) =>
        /\ pc \in {"fit", "error"}
        /\ pc = "error" => errmsg = ResMsg
        /\ ~g.alloc
        /\ niters = 0
        /\ levels = << >>

(* the error raised for a bad resolution on the second axis *)
C4_Witness ==
    /\ pc = "error"
    /\ errmsg = ResMsg
    /\ in.di >= 2
    /\ in.gres[1] >= 2
    /\ in.gres[2] < 2
    /\ ~g.alloc

(* some supplied table has adjacent entries closer than 1e-12 *)
TooClose ==
    /\ in.ipos # << >>
    /\ \E e \in 1..in.di :
          /\ in.ipos[e] # << >>
          /\ \E i \in 2..in.gres[e] : Abs(in.ipos[e][i] - in.ipos[e][i-1]) < IposMinGap

(* C5: with two adjacent axis positions closer than 1e-12 the fit raises   *)
(* the fatal error before the grid is allocated and before any level (and  *)
(* so any level's matrix) is allocated.                                    *)
C5_CloseIposFailsFirst ==
    (TooClose /\ \A e \in 1..in.di : in.gres[e] >= 2) =>
        /\ pc \in {"fit", "expand", "ipos", "error"}
        /\ pc = "error" => errmsg = IposMsg
        /\ ~g.alloc
        /\ levels = << >>

(* the error raised for a rising table whose last gap is 0.5e-12 *)
C5_Witness ==
    /\ pc = "error"
    /\ errmsg = IposMsg
    /\ in.ipos # << >>
    /\ in.ipos[1] = <<0, 3, 4>>
    /\ ~g.alloc

(* some supplied table is neither strictly rising nor strictly falling *)
NotStrictlyMonotonic ==
    /\ in.ipos # << >>
    /\ \E e \in 1..in.di :
          /\ in.ipos[e] # << >>
          /\ ~(\A i \in 2..in.gres[e] : in.ipos[e][i] > in.ipos[e][i-1])
          /\ ~(\A i \in 2..in.gres[e] : in.ipos[e][i] < in.ipos[e][i-1])

(* C6: a supplied table that is not strictly monotonic makes the fit fail: *)
(* it never gets past the check of the axis positions.                     *)
C6_NonMonotonicFails ==
    NotStrictlyMonotonic => pc \in {"fit", "expand", "ipos", "error"}

(* C7: with data, the fit returns the value of the monotonicity check,     *)
(* which is called once and only when the grid holds, for every channel,   *)
(* the solution of that channel's last level at the requested resolution;  *)
(* whatever the check answers no error is raised and the grid keeps those  *)
(* solutions.                                                              *)
GridHoldsSolutions ==
    \A c \in 1..in.fdi :
        /\ grid[c].from # 0
        /\ levels[grid[c].from].f = c
        /\ levels[grid[c].from].res = in.gres
        /\ levels[grid[c].from].x = "solved"
C7_ReturnsMonoCheck ==
    /\ hist.mono <= 1
    /\ hist.mono = 1 => GridHoldsSolutions /\ in.dno >= 1
    /\ (pc = "done" /\ in.dno >= 1) =>
          /\ hist.mono = 1
          /\ ret = hist.monoret
          /\ errmsg = ""

(* a fit of two channels that returns "non-monotonic" *)
C7_Witness ==
    /\ pc = "done"
    /\ in.dno >= 1
    /\ in.fdi = 2
    /\ ret = 1
    /\ hist.monoret = 1
    /\ GridHoldsSolutions

(* C8: after the setup the range encloses every data point on every axis,  *)
(* every level is built with that range, and "Data point outside grid" is  *)
(* never raised.                                                           *)
C8_RangeEnclosesData ==
    /\ (pc \notin {"fit", "expand"} /\ errmsg # ResMsg) =>
          \A n \in 1..in.dno : \A e \in 1..in.di :
              g.l[e] <= in.pts[n][e] /\ in.pts[n][e] <= g.h[e]
    /\ \A id \in 1..Len(levels) : levels[id].l = g.l /\ levels[id].h = g.h
    /\ errmsg # OutsideMsg

(* a finished fit with supplied bounds, one point below the low bound and  *)
(* one above the high bound                                                *)
C8_Witness ==
    /\ pc = "done"
    /\ in.glow # << >>
    /\ in.ghigh # << >>
    /\ \E n \in 1..in.dno : \E e \in 1..in.di : in.pts[n][e] < in.glow[e]
    /\ \E n \in 1..in.dno : \E e \in 1..in.di : in.pts[n][e] > in.ghigh[e]
    /\ Len(levels) > 0

(* the solver's counters are within their caps *)
SolveCaps ==
    /\ sv.i <= MAXOUTER
    /\ sv.ni <= MAXNI
    /\ sv.phase = "cg" =>
          /\ sv.it - 1 <= sv.max_it
          /\ sv.max_it <= CGFACTOR * levels[m].no

(* C9: every solve stays within its caps (500 outer passes of at most 16   *)
(* sweeps, 10*gno conjugate gradient iterations); a solve that ends on its *)
(* cap raises no error and the fit goes on to return; every fit ends.      *)
C9_SolveTerminates ==
    /\ [](SolveCaps /\ (hist.capped # {} => errmsg = ""))
    /\ <>(pc \in {"done", "error"})
    /\ (hist.capped # {} ~> pc = "done")

(* a fit that returned although the direct solve of its first level and    *)
(* the relaxation of its last level both ran into their caps               *)
C9_Witness ==
    /\ pc = "done"
    /\ hist.capped = {"cg", "relax"}
    /\ errmsg = ""
    /\ in.gres = <<9>>
    /\ grid[1].from # 0

(* C10: what is computed for a channel depends on no other channel: every  *)
(* level, the corrected targets and the grid values of channel c derive    *)
(* from channel c only; when a channel starts, the sub-pass index is 0 and *)
(* the shared curvature buffer is unallocated.                             *)
C10_ChannelsIndependent ==
    /\ \A id \in 1..Len(levels) : levels[id].deps \subseteq {levels[id].f}
    /\ \A c \in 1..in.fdi : grid[c].deps \subseteq {c} /\ cv[c].deps \subseteq {c}
    /\ ccv.alloc => ccv.deps \subseteq {f}
    /\ (pc = "zf" /\ donezf = 0) => tpsm2 = 0 /\ ~ccv.alloc

(* the second channel under way after a first channel that used two pass   *)
(* smoothing and extra fitting                                             *)
C10_Witness ==
    /\ pc = "done"
    /\ in.fdi = 2
    /\ in.tpsm = 1
    /\ in.zf = ZF_ON
    /\ hist.ccvcomp > 3
    /\ cv[1].corr > 0
    /\ grid[2].deps = {2}

(* C11: without two pass smoothing, a smoothing factor of 0.0 gives every  *)
(* level the curvature weights that a factor of 1.0 gives.                 *)
C11_ZeroSmoothIsDefault ==
    (in.tpsm = 0 /\ in.smooth = 0) =>
        \A id \in 1..Len(levels) : levels[id].cw = CurvWeight(1, 0, levels[id].pass)

C13_ThreeSamplesAccepted ==
    /\ (cs.call.op \in {"set", "read"} /\ cs.call.clean /\ cs.call.n >= 3) =>
          cs.rv = 0 /\ cs.no_samp = cs.call.n
    /\ (cs.call.op = "write" /\ cs.call.clean /\ cs.call.n >= 3) => cs.rv = 0
    /\ (cs.call.op \in {"set", "read"} /\ cs.rv # 0 /\ cs.err # "cgats read failed"
          /\ cs.err # "read_ccss: new_cgats() failed"
          /\ cs.err # "read_ccss: not a CCSS file with one table") => cs.no_samp = 0

(* a relaxation pass has just ended: the loop was left, or goes on *)
RelaxRan == sv.ni > 0
RelaxLeft == sv.phase = "out"

(* C14 as stated: the relaxation loop is left at the end of a pass exactly *)
(* when the residual is <= the tolerance or the per-sweep ratio is >=      *)
(* 0.998, ratios above 1.0 included (looked at away from the boundary      *)
(* residual = tolerance, and with a previous residual above 0).            *)
C14_StopsAlsoOnGrowth ==
    (RelaxRan /\ sv.err # TOL /\ sv.lerr > 0) =>
       (RelaxLeft <=> (sv.err <= TOL \/ sv.err * 1000 >= ImpPow(sv.ni) * sv.lerr))

(* C14 amended: the relaxation loop is left at the end of a pass exactly   *)
(* when the residual is below the tolerance, or the per-sweep ratio is     *)
(* above 0.998 and at most 1.0; a residual that grew does not stop it.     *)
C14_StopsOnSlowProgress ==
    RelaxRan =>
       (RelaxLeft <=> \/ sv.err < TOL
                      \/ /\ sv.lerr > 0
                         /\ sv.err <= sv.lerr
                         /\ sv.err * 1000 > ImpPow(sv.ni) * sv.lerr)

(* the loop goes on after a pass in which the residual doubled *)
C14_Witness ==
    /\ RelaxRan
    /\ ~RelaxLeft
    /\ sv.lerr = 2 * TOL
    /\ sv.err = 4 * TOL
    /\ sv.i >= 2

(* the rate observed over the last batch of n sweeps (residual lerr to     *)
(* err) predicts that at least two more sweeps are needed to reach the     *)
(* tolerance: log(TOL/err) / (log(err/lerr)/n) >= 2, that is               *)
(* TOL^n * lerr^2 <= err^(n+2); evaluated for residuals that are whole     *)
(* multiples of the tolerance                                              *)
PredictsTwoSweeps(err, lerr, n) ==
    /\ err % TOL = 0 /\ lerr % TOL = 0
    /\ TOL < err /\ err < lerr
    /\ (lerr \div TOL)^2 <= (err \div TOL)^(n + 2)

(* a step of the outer relaxation loop *)
RelaxStep == /\ sv.phase = "relax"
             /\ sv'.phase \in {"relax", "out"}
             /\ sv' # sv

(* C15: the first relaxation batch is one sweep; every later batch has the *)
(* size the observed convergence rate predicts, clamped to 1..16, so it is *)
(* of at least two sweeps when the rate predicts at least two.             *)
C15_BatchFollowsRate ==
    [][ RelaxStep =>
          /\ sv.i = 0 => sv'.ni = 1
          /\ sv'.ni \in 1..MAXNI
          /\ (sv.i > 0 /\ PredictsTwoSweeps(sv.err, sv.lerr, sv.ni)) => sv'.ni >= 2 ]_vars

(* ladder runs per channel: (extra fit passes + 1) x (1 or 2 sub-passes) *)
RunsPerChannel == (in.zf + 1) * (in.tpsm + 1)

(* channel, extra fit pass, sub-pass and rung of the k-th level built when *)
(* every channel runs the ladder RunsPerChannel times, rungs in order      *)
KeyAt(k) ==
    LET run == (k - 1) \div niters
    IN  [f |-> run \div RunsPerChannel + 1,
         zf |-> (run % RunsPerChannel) \div (in.tpsm + 1),
         pass |-> (run % RunsPerChannel) % (in.tpsm + 1),
         nn |-> (k - 1) % niters]

(* the system of level k has been built *)
Built(k) == levels[k].A \/ levels[k].seed # "none"

(* levels that end sub-pass 0 of a ladder run and have been solved *)
FirstPassTops ==
    {k \in 1..Len(levels) : /\ levels[k].pass = 0
                            /\ levels[k].nn = niters - 1
                            /\ levels[k].x = "solved"}

(* sub-pass 0 has just ended and its compensation values are still to be   *)
(* computed                                                                *)
CcvPending == IF tpsm2 = 0 /\ nn = niters /\ pc \in {"rung", "tp_end"} THEN 1 ELSE 0

(* C16: per channel the ladder is run (extra fit passes + 1) x (1 or 2)    *)
(* times, rungs 0..niters-1 in order.  With two pass smoothing the         *)
(* compensation values are computed and filtered once per extra fit pass,  *)
(* from the solved last rung of sub-pass 0 and before sub-pass 1 builds a  *)
(* level; they are downsampled into every level of sub-pass 1 and into no  *)
(* level of sub-pass 0; the extra fit correction follows the last rung of  *)
(* the last sub-pass.                                                      *)
C16_LadderRuns ==
    /\ \A k \in 1..Len(levels) :
          /\ levels[k].f = KeyAt(k).f
          /\ levels[k].zf = KeyAt(k).zf
          /\ levels[k].pass = KeyAt(k).pass
          /\ levels[k].nn = KeyAt(k).nn
          /\ levels[k].res = ires[levels[k].nn + 1]
          /\ Built(k) =>
                levels[k].ccvgen =
                   IF in.tpsm # 0 /\ levels[k].pass = 1
                   THEN (levels[k].f - 1) * (in.zf + 1) + levels[k].zf + 1
                   ELSE 0
    /\ Len(levels) <= in.fdi * RunsPerChannel * niters
    /\ (pc = "done" /\ in.dno >= 1) => Len(levels) = in.fdi * RunsPerChannel * niters
    /\ hist.ccvfilt = hist.ccvcomp
    /\ hist.ccvcomp = IF in.tpsm # 0 THEN Cardinality(FirstPassTops) - CcvPending ELSE 0
    /\ ccv.alloc => /\ ccv.from \in FirstPassTops
                    /\ levels[ccv.from].f = f
    /\ \A c \in 1..in.fdi :
          /\ in.zf = 0 => cv[c].corr = 0
          /\ cv[c].corr > 0 =>
                /\ levels[cv[c].last].f = c
                /\ levels[cv[c].last].zf = cv[c].corr - 1
                /\ levels[cv[c].last].pass = in.tpsm
                /\ levels[cv[c].last].nn = niters - 1
                /\ levels[cv[c].last].x = "solved"

(* a finished fit of two channels with two pass smoothing, extra fitting   *)
(* and a ladder of three rungs: 2 x (3 x 2) runs of 3 levels               *)
C16_Witness ==
    /\ pc = "done"
    /\ in.fdi = 2
    /\ in.tpsm = 1
    /\ in.zf = ZF_ON
    /\ niters = 3
    /\ Len(levels) = 36
    /\ hist.ccvcomp = 6
    /\ cv[2].corr = 3

(* C17: rung 0 starts from the channel average and rung nn > 0 from the    *)
(* resampled, solved solution of rung nn-1 of the same run; rung nn-1 is   *)
(* freed after that resampling and before rung nn is solved; nothing is    *)
(* read from a level that has been freed.                                  *)
C17_SeedThenFree ==
    /\ ~hist.stale
    /\ \A k \in 1..Len(levels) :
          /\ levels[k].seed \in (IF levels[k].nn = 0 THEN {"none", "avg"}
                                                     ELSE {"none", "resampled"})
          /\ levels[k].seed # "none" => levels[k].seedok
          /\ levels[k].seed = "resampled" =>
                /\ levels[k].xfrom = k - 1
                /\ levels[k - 1].nn = levels[k].nn - 1
                /\ levels[k - 1].x = "solved"
                /\ levels[k - 1].frees = 1
          /\ (levels[k].nn > 0 /\ levels[k].seed = "none") =>
                /\ levels[k].x = "unset"
                /\ levels[k - 1].live
                /\ levels[k - 1].frees = 0
          /\ (levels[k].frees > 0 /\ levels[k].nn < niters - 1) =>
                /\ k < Len(levels)
                /\ levels[k + 1].seed = "resampled"
          /\ levels[k].x = "solved" => levels[k].seed # "none"

(* a finished fit with reruns of a three rung ladder: the last level was   *)
(* solved from the resampled solution of the freed level before it, and    *)
(* the first started from the average                                      *)
C17_Witness ==
    /\ pc = "done"
    /\ in.tpsm = 1
    /\ niters = 3
    /\ Len(levels) >= 6
    /\ levels[1].seed = "avg"
    /\ levels[Len(levels)].seed = "resampled"
    /\ levels[Len(levels)].x = "solved"
    /\ levels[Len(levels) - 1].frees = 1

(* C18: the extra edge weights 2.0 and 1.15 are used when the system of    *)
(* the last rung of a ladder is built, and every earlier rung is built     *)
(* with both weights 1.0.                                                  *)
C18_StiffenLastRungOnly ==
    \A k \in 1..Len(levels) :
       Built(k) =>
          IF levels[k].nn = niters - 1
          THEN levels[k].k0w = K0W /\ levels[k].k1w = K1W
          ELSE levels[k].k0w = KW_NONE /\ levels[k].k1w = KW_NONE

(* C19: the packing tables of every level are inverse to each other:       *)
(* packed column 0 is offset 0, every forward entry is >= 0, the inverse   *)
(* table maps the offset of packed column k back to k, and every other     *)
(* offset in range to the mark of a missing column.                        *)
C19_TablesInverse ==
    calc.op = "pack" =>
       /\ calc.t.xcol[1] = 0
       /\ \A k \in 1..calc.t.acols :
             /\ calc.t.xcol[k] >= 0
             /\ calc.t.xcol[k] < calc.t.ix
             /\ calc.t.ixcol[calc.t.xcol[k]] = k
       /\ \A o \in 0..(calc.t.ix - 1) :
             (\A k \in 1..calc.t.acols : calc.t.xcol[k] # o) => calc.t.ixcol[o] = NOCOL

(* the sum of the squares of b, and the square of the norm it calls for *)
RECURSIVE SumSqTo(_, _)
SumSqTo(b, i) == IF i = 0 THEN 0 ELSE SumSqTo(b, i - 1) + b[i] * b[i]
SumSq(b) == SumSqTo(b, MaxNodes)
FlooredSq(sq) == IF sq < NORMB_FLOOR * NORMB_FLOOR THEN NORMB_FLOOR * NORMB_FLOOR ELSE sq

(* C20: once the system is built, normb is the Euclidean norm of b, or the *)
(* floor 1e-4 when that norm is lower, whatever data, weak default and     *)
(* compensation terms went into b.                                         *)
C20_NormbIsNormOfB ==
    calc.op = "norm" =>
       /\ ~calc.r.normb.nan
       /\ calc.r.normb.sq = FlooredSq(SumSq(calc.r.b))

(* C21: before the convolution a row of length R is extended at both ends  *)
(* by reflection about the end value: for 1 <= j <= the kernel half width, *)
(* ext[-j] = 2 row[0] - row[j] and ext[R-1+j] = 2 row[R-1] - row[R-1-j].   *)
C21_MirrorBothEnds ==
    calc.op = "mirror" =>
       \A j \in 1..calc.hw :
          /\ calc.ext[-j] = 2 * calc.row[0] - calc.row[j]
          /\ calc.ext[calc.R - 1 + j] = 2 * calc.row[calc.R - 1] - calc.row[calc.R - 1 - j]

(* the least n with GRATIO^n * SRES >= bres: ceil(log(bres/SRES)/log(GRATIO)) *)
CeilSteps(bres) == CHOOSE n \in 0..bres : /\ GRATIO^n * SRES >= bres
                                          /\ \A k \in 0..(n - 1) : GRATIO^k * SRES < bres

(* C24: when the largest requested resolution is more than twice the       *)
(* starting resolution 4, the ladder has ceil(log(bres/4)/log(2)) steps,   *)
(* so that the ratio adjusted to that number of steps is at most 2.        *)
C24_StepsAreCeil ==
    (niters > 0 /\ g.bres > GRATIO * SRES) =>
        /\ niters - 1 = CeilSteps(g.bres)
        /\ g.bres <= SRES * GRATIO^(niters - 1)

(* C25: a fit called without data points returns 0 once the grid and the   *)
(* ladder table are allocated: no level is built or solved, no value is    *)
(* written to the output grid and the monotonicity check is not called.    *)
C25_NoDataReturnsAtOnce ==
    in.dno = 0 =>
        /\ pc \in {"fit", "expand", "ipos", "alloc_grid", "ladder", "add", "done", "error"}
        /\ levels = << >>
        /\ hist.solved = 0
        /\ hist.mono = 0
        /\ \A c \in 1..in.fdi : grid[c].from = 0
        /\ pc = "error" => errmsg \in {ResMsg, IposMsg}
        /\ pc = "done" => /\ ret = 0
                          /\ errmsg = ""
                          /\ g.alloc
                          /\ niters >= 2
                          /\ Len(ires) = niters
                          /\ \A c \in 1..in.fdi : Len(mgtmps[c]) = niters

(* a call without data that has returned 0 with a three rung ladder *)
C25_Witness ==
    /\ in.dno = 0
    /\ pc = "done"
    /\ ret = 0
    /\ g.alloc
    /\ niters = 3
    /\ levels = << >>

(* C26: every ladder has at least two rungs; on every axis the resolution  *)
(* of each rung lies between 2 and the requested resolution and does not   *)
(* go down from one rung to the next.                                      *)
C26_RungsBoundedAndRising ==
    niters > 0 =>
        /\ niters >= 2
        /\ Len(ires) = niters
        /\ \A i \in 1..niters : \A e \in 1..in.di :
              /\ ires[i][e] >= 2
              /\ ires[i][e] <= in.gres[e]
              /\ i > 1 => ires[i - 1][e] <= ires[i][e]

(* a ladder of four rungs that rises on the first axis while the second    *)
(* axis stays at its requested resolution 2                                *)
C26_Witness ==
    /\ niters = 4
    /\ in.di >= 2
    /\ in.gres[2] = 2
    /\ ires[1][1] < ires[2][1]
    /\ ires[2][1] < ires[3][1]
    /\ ires[3][1] < ires[4][1]
    /\ ires[1][2] = 2

(* the calls of one kind, and the position of the only write *)
CallsOf(op) == SelectSeq(io.calls, LAMBDA c : c.op = op)
WritePos == CHOOSE k \in 1..Len(io.calls) : io.calls[k].op = "write"

(* C27: icoms_write_read returns ICOM_NOTS without a transport call when   *)
(* the write or the read method is unset.  Otherwise it writes once; a     *)
(* failed write is returned and no response is read, else the result of    *)
(* the one response read is returned.  On a serial port the write is       *)
(* preceded by flush reads, repeated until one does not return ICOM_OK,    *)
(* and their error is not what the caller gets.                            *)
C27_WriteThenRead ==
    /\ io.pc = "ret" /\ (~io.haswrite \/ ~io.hasread) =>
          io.ret = "ICOM_NOTS" /\ io.calls = << >>
    /\ io.pc = "ret" /\ io.haswrite /\ io.hasread =>
          /\ Len(CallsOf("write")) = 1
          /\ IF io.calls[WritePos].res # "ICOM_OK"
             THEN /\ io.ret = io.calls[WritePos].res
                  /\ CallsOf("read") = << >>
                  /\ WritePos = Len(io.calls)
             ELSE /\ Len(CallsOf("read")) = 1
                  /\ WritePos = Len(io.calls) - 1
                  /\ io.calls[Len(io.calls)].op = "read"
                  /\ io.ret = io.calls[Len(io.calls)].res
          /\ \A k \in 1..(WritePos - 1) :
                /\ io.calls[k].op = "flush"
                /\ io.calls[k].res = "ICOM_OK" <=> k < WritePos - 1
          /\ io.serial <=> WritePos > 1
    /\ io.pc \in {"write", "read"} => /\ io.serial <=> CallsOf("flush") # << >>
                                      /\ io.pc = "write" => io.rv = "ICOM_OK"

(* a serial port: one stray read, the flush ended by a time out, the write *)
(* accepted and the response read failing with a system error              *)
C27_Witness ==
    /\ io.pc = "ret"
    /\ io.serial
    /\ io.calls = <<IoCall("flush", "ICOM_OK"), IoCall("flush", "ICOM_TO"),
                    IoCall("write", "ICOM_OK"), IoCall("read", "ICOM_SYS")>>
    /\ io.ret = "ICOM_SYS"

(* number of nodes of the level whose tables were built *)
PackGno == Gci(calc.res, calc.di + 1)

(* C28: the forward packing table never goes down from one packed column   *)
(* to the next, so a scan of the columns that stops at the first column    *)
(* whose neighbour lies beyond the last node skips no later column whose   *)
(* neighbour is a node of the grid.                                        *)
C28_ForwardNonDecreasing ==
    calc.op = "pack" =>
       /\ \A k \in 1..(calc.t.acols - 1) : calc.t.xcol[k] <= calc.t.xcol[k + 1]
       /\ \A i \in 0..(PackGno - 1) : \A k \in 1..calc.t.acols :
             i + calc.t.xcol[k] >= PackGno =>
                \A j \in k..calc.t.acols : i + calc.t.xcol[j] >= PackGno

(* C29: while the system is assembled every index is in range: the base    *)
(* cell of a data point lies in 0 .. res-2 on each axis, so its corners    *)
(* are nodes; every offset looked up in the inverse table is inside the    *)
(* table and has a packed column; and every entry of A written stands for  *)
(* a neighbour that is a node of the grid.                                 *)
C29_IndicesInRange ==
    calc.op = "asm" =>
       /\ \A e \in 1..calc.di : calc.mi[e] >= 0 /\ calc.mi[e] <= calc.res[e] - 2
       /\ \A j \in 0..(2^calc.di - 1) :
             /\ calc.bp + HiTo(calc.res, j, calc.di) >= 0
             /\ calc.bp + HiTo(calc.res, j, calc.di) < PackGno
       /\ \A w \in calc.writes :
             /\ w.row >= 0 /\ w.row < PackGno
             /\ w.off >= 0 /\ w.off < calc.t.ix
             /\ calc.t.ixcol[w.off] # NOCOL
             /\ calc.t.ixcol[w.off] \in 1..calc.t.acols
             /\ calc.t.xcol[calc.t.ixcol[w.off]] = w.off
             /\ w.row + w.off < PackGno
             /\ \A e \in 1..calc.di :
                   /\ NodeCoord(w.row, calc.res, e) + w.d[e] >= 0
                   /\ NodeCoord(w.row, calc.res, e) + w.d[e] < calc.res[e]

(* a level of 3 x 4 nodes with a data point on the high edge of the first  *)
(* axis and in an empty range on the second, where the conversion gave a   *)
(* large value: the base cell is the last one on both axes                 *)
C29_Witness ==
    /\ calc.op = "asm"
    /\ calc.res = <<3, 4>>
    /\ calc.pt[1] = [nan |-> FALSE, v |-> 4]
    /\ calc.pt[2] = [nan |-> TRUE, v |-> 2147483647]
    /\ calc.mi = <<1, 2>>
    /\ calc.bp = 7
    /\ \E w \in calc.writes : w.off = 4 /\ w.row = 7

(* the starts of the lines of the grid along axis d *)
LineStarts(d) ==
    {i \in 0..(Gci(calc.res, calc.di + 1) - 1) : NodeCoord(i, calc.res, d) = 0}

AllLines(dims) == UNION {{<<d, i>> : i \in LineStarts(d)} : d \in dims}

(* C23: one pass of line solves ends, and for each axis d it solves every  *)
(* line of the grid along d exactly once: no line is solved twice, only    *)
(* lines of the grid are solved, an axis is left only when all its lines   *)
(* are done, and the number of solves never exceeds the number of lines.   *)
C23_EachLineOnce ==
    calc.op = "itter1" =>
       /\ ~calc.again
       /\ calc.solved \subseteq AllLines(1..calc.d)
       /\ calc.n = Cardinality(calc.solved)
       /\ calc.pc = "line" => /\ <<calc.d, calc.sof>> \in AllLines({calc.d})
                              /\ <<calc.d, calc.sof>> \notin calc.solved
                              /\ AllLines(1..(calc.d - 1)) \subseteq calc.solved
       /\ calc.pc = "dim" => calc.solved = AllLines(1..calc.d)
       /\ calc.pc = "done" => calc.solved = AllLines(1..calc.di)

(* a pass over a grid of 4 axes with resolutions 2, 3, 2, 3 has ended      *)
(* after 18 + 12 + 18 + 12 line solves                                     *)
C23_Witness ==
    /\ calc.op = "itter1"
    /\ calc.pc = "done"
    /\ calc.res = <<2, 3, 2, 3>>
    /\ calc.n = 60

(* the entries of x[] on the line: sof + k * inc for 0 <= k < nid *)
CjLineSet == {calc.sof + k * calc.inc : k \in 0..(calc.nid - 1)}

(* C30: a line solve changes only the entries of x on its line; every      *)
(* other entry of x, and all of A and b, are as they were at entry at      *)
(* every step; and when the line's residual at entry is within the         *)
(* tolerance the line's entries are put back unchanged.                    *)
C30_OnlyTheLineChanges ==
    calc.op = "cj" =>
       /\ DOMAIN calc.x = DOMAIN calc.x0
       /\ \A i \in DOMAIN calc.x0 : i \notin CjLineSet => calc.x[i] = calc.x0[i]
       /\ calc.A = calc.A0
       /\ calc.b = calc.b0
       /\ (calc.pc = "done" /\ calc.early) => calc.x = calc.x0

(* a line along the second axis of a 3 x 3 grid is solved with one         *)
(* iteration, and its entries 1, 4, 7 end with new values                  *)
C30_Witness ==
    /\ calc.op = "cj"
    /\ calc.pc = "done"
    /\ calc.gno = 9
    /\ calc.sof = 1 /\ calc.inc = 3 /\ calc.nid = 3
    /\ ~calc.early
    /\ \E i \in CjLineSet : calc.x[i] # calc.x0[i]

(* A * x at node i of the level in calc, over the whole row *)
FullRow(i) == VAdd(VMul(calc.A[i][0], calc.x[i]), RowQ(calc, i, 1))

(* C22: for a level without data points, weak default function or          *)
(* curvature compensation the uniform seed is an exact solution: A times   *)
(* the seed is 0 at every node, and the level solver returns with x equal  *)
(* to the seed at every node.                                              *)
C22_UniformSeedStays ==
    /\ (calc.op = "curv" /\ calc.pc = "built") =>
          \A i \in 0..(calc.gno - 1) : FullRow(i) = Fin(0)
    /\ (calc.op = "curv" /\ calc.pc = "done") => calc.x = calc.x0
    /\ (calc.op = "cj" /\ calc.by = "solve_gres" /\ calc.pc = "done") => calc.x = calc.x0

====
